---- MODULE Spec2Model ----
(***************************************************************************)
(* Authentication, authorization and user management of the FastAPI        *)
(* backend (app/api/v1/endpoints, app/dependencies/auth.py, app/crud,      *)
(* app/core/security.py).  Requests run concurrently on worker slots; a    *)
(* step of a request is one storage access together with the local         *)
(* computation that follows it.                                            *)
(***************************************************************************)
EXTENDS Integers, FiniteSets, Sequences, TLC

VARIABLES users, nextId, api_keys, nextKeyId, tokens, now, settings, req

vars == <<users, nextId, api_keys, nextKeyId, tokens, now, settings, req>>

(***************************************************************************)
(* Bounds and input domains                                                *)
(***************************************************************************)
MaxUsers == 2

MaxKeys == 2

Reqs == {1, 2}

FIRST_SUPERUSER_EMAIL == "admin@example.com"

FIRST_SUPERUSER_USERNAME == "admin"

FIRST_SUPERUSER_PASSWORD == "admin"

ACCESS_TOKEN_EXPIRE_MINUTES == 0

\* the clock counts ticks; a Unix timestamp counts whole seconds
TicksPerSecond == 3

SecondsPerMinute == 60

\* ticks the clock may run past a minute
MaxTicks == 4

MaxTime == SecondsPerMinute * TicksPerSecond + MaxTicks

MinutesPerHour == 60

HoursPerDay == 24

\* days_valid: int = Query(30, ge=1, le=365)
DefaultDaysValid == 30

Emails == {FIRST_SUPERUSER_EMAIL, "x@x.com"}

Usernames == {FIRST_SUPERUSER_USERNAME, "u1"}

Passwords == {FIRST_SUPERUSER_PASSWORD, "p"}

OptBool == {"true", "false", "unset"}

UserIds == 1..MaxUsers

KeyIds == 1..MaxKeys

KeyValues == {"k1", "k2"}

(***************************************************************************)
(* app/schemas/user.py and the users table                                 *)
(***************************************************************************)
UserColumns ==
    {"id", "email", "username", "hashed_password", "full_name",
     "is_active", "is_superuser", "created_at", "updated_at"}

UserSchemaFields ==
    {"email", "username", "is_active", "is_superuser", "full_name",
     "id", "created_at", "updated_at"}

APIKeySchemaFields ==
    {"name", "is_active", "expires_at", "id", "key", "user_id", "created_at"}

TokenFields == {"access_token", "token_type"}

NullUser ==
    [id |-> 0, email |-> "None", username |-> "None",
     hashed_password |-> [scheme |-> "none", of |-> "None"],
     full_name |-> "None", is_active |-> FALSE, is_superuser |-> FALSE]

NullKey ==
    [id |-> 0, key |-> "None", name |-> "None", user_id |-> 0,
     is_active |-> FALSE, expires_at |-> -1]

NullToken == [sub |-> "", exp |-> 0, is_superuser |-> FALSE, sig |-> "none"]

\* expires_delta: Optional[timedelta] = None
NoDelta == -1

NullArgs ==
    [email |-> "unset", username |-> "unset", password |-> "unset",
     full_name |-> "unset", is_active |-> "unset", is_superuser |-> "unset",
     id |-> 0, ids |-> {}, search |-> "unset", name |-> "unset",
     expires_at |-> -1, days_valid |-> 0, key |-> "None",
     expires_delta |-> NoDelta, body_id |-> 0, user_id |-> 0,
     page |-> 1, page_size |-> 20, sort_order |-> "asc"]

(***************************************************************************)
(* app/core/security.py                                                    *)
(***************************************************************************)
get_password_hash(password) == [scheme |-> "bcrypt", of |-> password]

verify_password(plain_password, hashed_password) ==
    /\ hashed_password.scheme = "bcrypt"
    /\ hashed_password.of = plain_password

\* str(subject) and the integer the storage lookup reads back from it
StrOfId(i) ==
    CASE i = 0 -> "0" [] i = 1 -> "1" [] i = 2 -> "2" [] i = 3 -> "3"
      [] i = 4 -> "4" [] i = 5 -> "5" [] OTHER -> "many"

IdOfStr(s) ==
    CASE s = "1" -> 1 [] s = "2" -> 2 [] s = "3" -> 3
      [] s = "4" -> 4 [] s = "5" -> 5 [] OTHER -> 0

\* timedelta(minutes=m), in ticks
Minutes(m) == m * SecondsPerMinute * TicksPerSecond

\* the whole seconds of an instant: what jose puts into the exp claim and
\* what it reads off the clock
Timestamp(t) == t \div TicksPerSecond

\* datetime.fromtimestamp(exp)
FromTimestamp(exp) == exp * TicksPerSecond

\* `if expires_delta:` is false for None and for timedelta(0)
create_access_token(subject, expires_delta) ==
    LET expire == IF expires_delta # NoDelta /\ expires_delta # 0
                  THEN now + expires_delta
                  ELSE now + Minutes(settings.ACCESS_TOKEN_EXPIRE_MINUTES)
    IN  [sub |-> StrOfId(subject), exp |-> Timestamp(expire),
         is_superuser |-> FALSE, sig |-> "ok"]

(***************************************************************************)
(* Storage: app/crud/base.py, app/crud/user.py                             *)
(***************************************************************************)
Bool(s) == s = "true"

crud_user_get(id) ==
    IF \E u \in users : u.id = id
    THEN CHOOSE u \in users : u.id = id
    ELSE NullUser

get_by_email(email) ==
    IF \E u \in users : u.email = email
    THEN CHOOSE u \in users : u.email = email
    ELSE NullUser

get_by_username(username) ==
    IF \E u \in users : u.username = username
    THEN CHOOSE u \in users : u.username = username
    ELSE NullUser

\* the session's identity map: a row already loaded in this session keeps the
\* attribute values of its first load
SessionGet(cu, id) ==
    IF cu.id = id /\ crud_user_get(id) # NullUser THEN cu ELSE crud_user_get(id)

\* a users table without uniqueness constraints
UniqueViolation_none(rows) == FALSE

\* the uniqueness constraints of the users table
UniqueViolation(rows) ==
    \E u, v \in rows :
        /\ u.id # v.id
        /\ (u.email = v.email \/ u.username = v.username)

\* UserCreate: is_active defaults to True, is_superuser to False
UserCreateRow(id, obj_in) ==
    [id |-> id, email |-> obj_in.email, username |-> obj_in.username,
     hashed_password |-> get_password_hash(obj_in.password),
     full_name |-> IF obj_in.full_name = "unset" THEN "None" ELSE obj_in.full_name,
     is_active |-> IF obj_in.is_active = "unset" THEN TRUE ELSE Bool(obj_in.is_active),
     is_superuser |-> Bool(obj_in.is_superuser)]

\* a schema that keeps the fields it does not declare
UserUpdate_extra(body) == body

\* UserUpdate(**body): the schema declares no id, and a field it does not
\* declare is dropped (body_id is an "id" member of the body)
UserUpdate(body) == [body EXCEPT !.body_id = 0]

\* an update that stores the password as it was sent
UpdateData_plain(db_obj, obj_in) ==
    [db_obj EXCEPT
       !.hashed_password = IF obj_in.password \in {"unset", "None", ""} THEN @
                           ELSE [scheme |-> "plain", of |-> obj_in.password]]

\* CRUDUser.update followed by CRUDBase.update: every column named in the
\* update data is set, the password replaced by its hash when it is not empty
UpdateData(db_obj, obj_in) ==
    [db_obj EXCEPT
       !.id = IF obj_in.body_id = 0 THEN @ ELSE obj_in.body_id,
       !.email = IF obj_in.email = "unset" THEN @ ELSE obj_in.email,
       !.username = IF obj_in.username = "unset" THEN @ ELSE obj_in.username,
       !.full_name = IF obj_in.full_name = "unset" THEN @ ELSE obj_in.full_name,
       !.is_active = IF obj_in.is_active = "unset" THEN @ ELSE Bool(obj_in.is_active),
       !.is_superuser = IF obj_in.is_superuser = "unset" THEN @
                        ELSE Bool(obj_in.is_superuser),
       !.hashed_password = IF obj_in.password \in {"unset", "None", ""} THEN @
                           ELSE get_password_hash(obj_in.password)]

\* the UPDATE statement the unit of work emits: only the columns whose value
\* differs from the loaded one are written, onto the row as stored now
FlushedRow(stored, db_obj, new) ==
    [stored EXCEPT
       !.id = IF new.id # db_obj.id THEN new.id ELSE @,
       !.email = IF new.email # db_obj.email THEN new.email ELSE @,
       !.username = IF new.username # db_obj.username THEN new.username ELSE @,
       !.full_name = IF new.full_name # db_obj.full_name THEN new.full_name ELSE @,
       !.is_active = IF new.is_active # db_obj.is_active THEN new.is_active ELSE @,
       !.is_superuser = IF new.is_superuser # db_obj.is_superuser
                        THEN new.is_superuser ELSE @,
       !.hashed_password = IF new.hashed_password # db_obj.hashed_password
                           THEN new.hashed_password ELSE @]

(***************************************************************************)
(* Responses                                                               *)
(***************************************************************************)
\* next_page and prev_page of a page that has none
NoPage == 0

NullPagination ==
    [page |-> 0, page_size |-> 0, total_items |-> 0, total_pages |-> 0,
     has_next |-> FALSE, has_prev |-> FALSE, next_page |-> NoPage,
     prev_page |-> NoPage]

NoResp ==
    [status |-> 0, detail |-> "", fields |-> {}, ids |-> {}, token |-> NullToken,
     pagination |-> NullPagination]

Err(status, detail) == [NoResp EXCEPT !.status = status, !.detail = detail]

\* response_model=UserSchema: the body carries the schema's fields only
UserBody(u) == [NoResp EXCEPT !.status = 200, !.fields = UserSchemaFields, !.ids = {u.id}]

UserListBody(us) ==
    [NoResp EXCEPT !.status = 200,
                   !.fields = IF us = {} THEN {} ELSE UserSchemaFields,
                   !.ids = {u.id : u \in us}]

InternalError == Err(500, "Internal Server Error")

(***************************************************************************)
(* app/dependencies/auth.py                                                *)
(***************************************************************************)
\* a resolution that looks the user up before it checks the token's expiry
get_current_user_lookup_first(token) ==
    IF token.sig = "none"
    THEN [status |-> 401, detail |-> "Not authenticated", user |-> NullUser]
    ELSE IF token.sig # "ok"
    THEN [status |-> 401, detail |-> "Could not validate credentials", user |-> NullUser]
    ELSE IF crud_user_get(IdOfStr(token.sub)) = NullUser
    THEN [status |-> 404, detail |-> "User not found", user |-> NullUser]
    ELSE IF FromTimestamp(token.exp) < now
    THEN [status |-> 401, detail |-> "Token has expired", user |-> NullUser]
    ELSE [status |-> 200, detail |-> "", user |-> crud_user_get(IdOfStr(token.sub))]

get_current_user(token) ==
    IF token.sig = "none"
    THEN [status |-> 401, detail |-> "Not authenticated", user |-> NullUser]
    ELSE IF token.sig # "ok" \/ token.exp < Timestamp(now)
    THEN [status |-> 401, detail |-> "Could not validate credentials", user |-> NullUser]
    ELSE IF FromTimestamp(token.exp) < now
    THEN [status |-> 401, detail |-> "Token has expired", user |-> NullUser]
    ELSE IF crud_user_get(IdOfStr(token.sub)) = NullUser
    THEN [status |-> 404, detail |-> "User not found", user |-> NullUser]
    ELSE [status |-> 200, detail |-> "", user |-> crud_user_get(IdOfStr(token.sub))]

\* an active-user gate that lets inactive users through
get_current_active_user_lax(token) == get_current_user(token)

get_current_active_user(token) ==
    LET g == get_current_user(token)
    IN  IF g.status # 200 THEN g
        ELSE IF ~g.user.is_active
        THEN [status |-> 400, detail |-> "Inactive user", user |-> NullUser]
        ELSE g

\* a superuser gate that lets every active user through
get_current_superuser_lax(token) == get_current_active_user(token)

\* a superuser gate that trusts the token's is_superuser claim
get_current_superuser_claim(token) ==
    LET g == get_current_active_user(token)
    IN  IF g.status # 200 THEN g
        ELSE IF ~token.is_superuser
        THEN [status |-> 403, detail |-> "Not enough permissions", user |-> NullUser]
        ELSE g

get_current_superuser(token) ==
    LET g == get_current_active_user(token)
    IN  IF g.status # 200 THEN g
        ELSE IF ~g.user.is_superuser
        THEN [status |-> 403, detail |-> "Not enough permissions", user |-> NullUser]
        ELSE g

(***************************************************************************)
(* Request slots                                                           *)
(***************************************************************************)
\* `at` is the time the request arrived and, once answered, the time of the answer
IdleReq ==
    [op |-> "none", pc |-> "idle", tok |-> NullToken, a |-> NullArgs,
     cu |-> NullUser, tgt |-> NullUser, key |-> NullKey, resp |-> NoResp,
     at |-> 0]

Free(r) == req[r].pc \in {"idle", "done"}

At(r, op, pc) == req[r].op = op /\ req[r].pc = pc

NewReq(op, pc, tok, a, cu) ==
    [IdleReq EXCEPT !.op = op, !.pc = pc, !.tok = tok, !.a = a, !.cu = cu,
                    !.at = now]

\* a finished request keeps its endpoint, its credential, its body and its
\* response
Finished(op, tok, a, resp) ==
    [IdleReq EXCEPT !.op = op, !.pc = "done", !.tok = tok, !.a = a, !.resp = resp,
                    !.at = now]

Goto(r, pc) == req' = [req EXCEPT ![r].pc = pc]

Reply(r, resp) == req' = [req EXCEPT ![r] = Finished(req[r].op, req[r].tok, req[r].a, resp)]

\* the tokens a client can present: one the server issued, a forged one, none
Presentable == tokens \cup {[NullToken EXCEPT !.sig = "bad", !.sub = "1"], NullToken}

\* entry of an endpoint behind a dependency: the principal is resolved and
\* the request goes on to `next`, or ends with the dependency's error
Enter(r, op, tok, a, g, next) ==
    /\ Free(r)
    /\ req' = [req EXCEPT ![r] =
                 IF g.status = 200 THEN NewReq(op, next, tok, a, g.user)
                 ELSE Finished(op, tok, a, Err(g.status, g.detail))]

\* Settings() without environment overrides
DefaultSettings == [ACCESS_TOKEN_EXPIRE_MINUTES |-> ACCESS_TOKEN_EXPIRE_MINUTES]

Init ==
    /\ users = {}
    /\ nextId = 1
    /\ api_keys = {}
    /\ nextKeyId = 1
    /\ tokens = {}
    /\ now = 0
    /\ settings = DefaultSettings
    /\ req = [r \in Reqs |-> IdleReq]

(***************************************************************************)
(* Storage writes shared by the endpoints                                  *)
(***************************************************************************)
\* requests that will still draw an id from the users sequence
Creating == {r \in Reqs : req[r].pc \in {"email", "username", "create"}
                          /\ req[r].op \in {"register_user", "create_user", "create_admin"}}

MayCreate == nextId + Cardinality(Creating) <= MaxUsers

\* CRUDUser.create: the INSERT draws the next id; a row that violates a
\* uniqueness constraint is refused and the exception is not handled
CreateCommit(r, obj_in, okStatus) ==
    LET row == UserCreateRow(nextId, obj_in)
    IN  /\ nextId' = nextId + 1
        /\ IF UniqueViolation(users \cup {row})
           THEN /\ users' = users
                /\ Reply(r, InternalError)
           ELSE /\ users' = users \cup {row}
                /\ Reply(r, [UserBody(row) EXCEPT !.status = okStatus])

\* CRUDBase.update: setattr of the update data on the loaded object, commit,
\* refresh
UpdateCommit(r, db_obj, new) ==
    LET stored == crud_user_get(db_obj.id)
        flushed == FlushedRow(stored, db_obj, new)
    IN  IF stored = NullUser
        THEN users' = users /\ Reply(r, InternalError)
        ELSE IF UniqueViolation((users \ {stored}) \cup {flushed})
        THEN users' = users /\ Reply(r, InternalError)
        ELSE /\ users' = (users \ {stored}) \cup {flushed}
             /\ Reply(r, UserBody(flushed))

(***************************************************************************)
(* app/api/v1/endpoints/auth.py                                            *)
(***************************************************************************)
\* a login that tells an inactive account before it checks the password
LoginResult_active_first(user, password) ==
    IF user # NullUser /\ ~user.is_active
    THEN Err(400, "Inactive user")
    ELSE IF user = NullUser \/ ~verify_password(password, user.hashed_password)
    THEN Err(401, "Incorrect username/email or password")
    ELSE [NoResp EXCEPT !.status = 200, !.fields = TokenFields,
            !.token = create_access_token(user.id,
                                           Minutes(settings.ACCESS_TOKEN_EXPIRE_MINUTES))]

\* a login without the is_active test
LoginResult_any_user(user, password) ==
    IF user = NullUser \/ ~verify_password(password, user.hashed_password)
    THEN Err(401, "Incorrect username/email or password")
    ELSE [NoResp EXCEPT !.status = 200, !.fields = TokenFields,
            !.token = create_access_token(user.id,
                                           Minutes(settings.ACCESS_TOKEN_EXPIRE_MINUTES))]

LoginResult(user, password) ==
    IF user = NullUser \/ ~verify_password(password, user.hashed_password)
    THEN Err(401, "Incorrect username/email or password")
    ELSE IF ~user.is_active
    THEN Err(400, "Inactive user")
    ELSE [NoResp EXCEPT !.status = 200, !.fields = TokenFields,
            !.token = create_access_token(user.id,
                                           Minutes(settings.ACCESS_TOKEN_EXPIRE_MINUTES))]

LoginReply(r, rec, user) ==
    LET res == LoginResult(user, rec.a.password)
    IN  /\ req' = [req EXCEPT ![r] = Finished(rec.op, rec.tok, rec.a, res)]
        /\ tokens' = IF res.status = 200 THEN tokens \cup {res.token} ELSE tokens

login_access_token(r, a) ==
    /\ Free(r)
    /\ LET rec == NewReq("login_access_token", "username", NullToken, a, NullUser)
           user == get_by_email(a.username)
       IN  IF user = NullUser
           THEN req' = [req EXCEPT ![r] = rec] /\ tokens' = tokens
           ELSE LoginReply(r, rec, user)
    /\ UNCHANGED <<users, nextId, api_keys, nextKeyId, now, settings>>

login_access_token_username(r) ==
    /\ At(r, "login_access_token", "username")
    /\ LoginReply(r, req[r], get_by_username(req[r].a.username))
    /\ UNCHANGED <<users, nextId, api_keys, nextKeyId, now, settings>>

test_token(r, tok) ==
    /\ Free(r)
    /\ LET g == get_current_active_user(tok)
       IN  req' = [req EXCEPT ![r] =
                     Finished("test_token", tok, NullArgs,
                              IF g.status = 200 THEN UserBody(g.user)
                              ELSE Err(g.status, g.detail))]
    /\ UNCHANGED <<users, nextId, api_keys, nextKeyId, tokens, now, settings>>

register_user(r, a) ==
    /\ Free(r)
    /\ MayCreate
    /\ req' = [req EXCEPT ![r] =
                 IF get_by_email(a.email) # NullUser
                 THEN Finished("register_user", NullToken, a,
                               Err(400, "A user with this email already exists."))
                 ELSE NewReq("register_user", "username", NullToken, a, NullUser)]
    /\ UNCHANGED <<users, nextId, api_keys, nextKeyId, tokens, now, settings>>

register_user_username(r) ==
    /\ At(r, "register_user", "username")
    /\ IF get_by_username(req[r].a.username) # NullUser
       THEN Reply(r, Err(400, "A user with this username already exists."))
       ELSE Goto(r, "create")
    /\ UNCHANGED <<users, nextId, api_keys, nextKeyId, tokens, now, settings>>

\* registration that passes the caller's is_superuser through
RegisterData_passthrough(a) == a

\* user_data["is_superuser"] = False before the row is built
RegisterData(a) == [a EXCEPT !.is_superuser = "false"]

register_user_create(r) ==
    /\ At(r, "register_user", "create")
    /\ CreateCommit(r, RegisterData(req[r].a), 200)
    /\ UNCHANGED <<api_keys, nextKeyId, tokens, now, settings>>

AdminCreate ==
    [NullArgs EXCEPT !.email = FIRST_SUPERUSER_EMAIL,
                     !.username = FIRST_SUPERUSER_USERNAME,
                     !.password = FIRST_SUPERUSER_PASSWORD,
                     !.is_superuser = "true", !.is_active = "true"]

create_admin(r) ==
    /\ Free(r)
    /\ MayCreate
    /\ LET user == get_by_email(FIRST_SUPERUSER_EMAIL)
       IN  req' = [req EXCEPT ![r] =
                     IF user # NullUser
                     THEN Finished("create_admin", NullToken, AdminCreate,
                                   [Err(201, "Admin user already exists")
                                      EXCEPT !.ids = {user.id}])
                     ELSE NewReq("create_admin", "create", NullToken, AdminCreate,
                                 NullUser)]
    /\ UNCHANGED <<users, nextId, api_keys, nextKeyId, tokens, now, settings>>

\* the handler returns {"message", "user_id"}, not the user object
AdminCreated(resp) ==
    IF resp.status = 201
    THEN [resp EXCEPT !.detail = "Admin user created successfully", !.fields = {}]
    ELSE resp

create_admin_create(r) ==
    /\ At(r, "create_admin", "create")
    /\ LET row == UserCreateRow(nextId, req[r].a)
       IN  /\ nextId' = nextId + 1
           /\ IF UniqueViolation(users \cup {row})
              THEN users' = users /\ Reply(r, InternalError)
              ELSE /\ users' = users \cup {row}
                   /\ Reply(r, AdminCreated([UserBody(row) EXCEPT !.status = 201]))
    /\ UNCHANGED <<api_keys, nextKeyId, tokens, now, settings>>

(***************************************************************************)
(* app/api/v1/endpoints/users.py                                           *)
(***************************************************************************)
\* ilike '%term%' over the searched columns
Contains(text, term) ==
    \/ term = "adm" /\ text \in {"admin@example.com", "admin"}
    \/ term = "x" /\ text \in {"x@x.com", "admin@example.com"}

SearchHit(u, term) ==
    \/ Contains(u.username, term)
    \/ Contains(u.email, term)
    \/ Contains(u.full_name, term)

FilterHit(u, a) ==
    /\ a.is_active = "unset" \/ u.is_active = Bool(a.is_active)
    /\ a.is_superuser = "unset" \/ u.is_superuser = Bool(a.is_superuser)

Max(a, b) == IF a >= b THEN a ELSE b

Min(a, b) == IF a <= b THEN a ELSE b

\* the rows in the order of their id, ascending or descending
RECURSIVE OrderBy(_, _)
OrderBy(rows, sort_order) ==
    IF rows = {} THEN <<>>
    ELSE LET first == IF sort_order = "desc"
                      THEN CHOOSE u \in rows : \A v \in rows : v.id <= u.id
                      ELSE CHOOSE u \in rows : \A v \in rows : v.id >= u.id
         IN  <<first>> \o OrderBy(rows \ {first}, sort_order)

\* query.offset(skip) and query.limit(page_size)
Offset(rows, skip) == SubSeq(rows, skip + 1, Len(rows))

Limit(rows, page_size) == SubSeq(rows, 1, Min(page_size, Len(rows)))

\* a page with the metadata of another page size
PageOf_floor(matching, page_in, page_size_in, sort_order) ==
    LET page == Max(1, page_in)
        page_size == Max(1, Min(100, page_size_in))
        total_count == Cardinality(matching)
        total_pages == total_count \div page_size
    IN  [items |-> Limit(Offset(OrderBy(matching, sort_order),
                                (page - 1) * page_size), page_size),
         pagination |->
           [page |-> page, page_size |-> page_size, total_items |-> total_count,
            total_pages |-> total_pages, has_next |-> page < total_pages,
            has_prev |-> page > 1,
            next_page |-> IF page < total_pages THEN page + 1 ELSE NoPage,
            prev_page |-> IF page > 1 THEN page - 1 ELSE NoPage]]

\* the part get_multi_paginated, filter_by and search share: the clamped page
\* of the matching rows and its metadata
PageOf(matching, page_in, page_size_in, sort_order) ==
    LET page == Max(1, page_in)
        page_size == Max(1, Min(100, page_size_in))
        skip == (page - 1) * page_size
        total_count == Cardinality(matching)
        items == Limit(Offset(OrderBy(matching, sort_order), skip), page_size)
        total_pages == IF total_count > 0
                       THEN (total_count + page_size - 1) \div page_size
                       ELSE 0
        has_next == page < total_pages
        has_prev == page > 1
    IN  [items |-> items,
         pagination |->
           [page |-> page, page_size |-> page_size, total_items |-> total_count,
            total_pages |-> total_pages, has_next |-> has_next,
            has_prev |-> has_prev,
            next_page |-> IF has_next THEN page + 1 ELSE NoPage,
            prev_page |-> IF has_prev THEN page - 1 ELSE NoPage]]

get_multi_paginated(a) == PageOf(users, a.page, a.page_size, a.sort_order)

filter_by(a) ==
    PageOf({u \in users : FilterHit(u, a)}, a.page, a.page_size, a.sort_order)

search(a) ==
    PageOf({u \in users : SearchHit(u, a.search)}, a.page, a.page_size,
           a.sort_order)

\* jsonable_encoder(item) of each row of the page: every loaded column
PageBody(result) ==
    [NoResp EXCEPT !.status = 200,
                   !.fields = IF result.items = <<>> THEN {} ELSE UserColumns,
                   !.ids = {result.items[i].id : i \in 1..Len(result.items)},
                   !.pagination = result.pagination]

\* direct calls of the three paginated queries of crud_user
get_multi_paginated_call(r, a) ==
    /\ Free(r)
    /\ req' = [req EXCEPT ![r] = Finished("get_multi_paginated", NullToken, a,
                                          PageBody(get_multi_paginated(a)))]
    /\ UNCHANGED <<users, nextId, api_keys, nextKeyId, tokens, now, settings>>

filter_by_call(r, a) ==
    /\ Free(r)
    /\ req' = [req EXCEPT ![r] = Finished("filter_by", NullToken, a,
                                          PageBody(filter_by(a)))]
    /\ UNCHANGED <<users, nextId, api_keys, nextKeyId, tokens, now, settings>>

search_call(r, a) ==
    /\ Free(r)
    /\ req' = [req EXCEPT ![r] = Finished("search", NullToken, a,
                                          PageBody(search(a)))]
    /\ UNCHANGED <<users, nextId, api_keys, nextKeyId, tokens, now, settings>>

read_users(r, tok, a) ==
    /\ Enter(r, "read_users", tok, a, get_current_superuser(tok), "query")
    /\ UNCHANGED <<users, nextId, api_keys, nextKeyId, tokens, now, settings>>

\* crud_user.search, crud_user.filter_by or crud_user.get_multi_paginated:
\* each returns the rows of the page passed through jsonable_encoder
read_users_query(r) ==
    /\ At(r, "read_users", "query")
    /\ LET a == req[r].a
       IN  Reply(r, PageBody(IF a.search # "unset" THEN search(a)
                             ELSE IF a.is_active # "unset" \/ a.is_superuser # "unset"
                             THEN filter_by(a)
                             ELSE get_multi_paginated(a)))
    /\ UNCHANGED <<users, nextId, api_keys, nextKeyId, tokens, now, settings>>

read_all_users(r, tok) ==
    /\ Enter(r, "read_all_users", tok, NullArgs, get_current_superuser(tok), "query")
    /\ UNCHANGED <<users, nextId, api_keys, nextKeyId, tokens, now, settings>>

read_all_users_query(r) ==
    /\ At(r, "read_all_users", "query")
    /\ Reply(r, UserListBody(users))
    /\ UNCHANGED <<users, nextId, api_keys, nextKeyId, tokens, now, settings>>

create_user(r, tok, a) ==
    /\ MayCreate
    /\ Enter(r, "create_user", tok, a, get_current_superuser(tok), "email")
    /\ UNCHANGED <<users, nextId, api_keys, nextKeyId, tokens, now, settings>>

create_user_email(r) ==
    /\ At(r, "create_user", "email")
    /\ IF get_by_email(req[r].a.email) # NullUser
       THEN Reply(r, Err(400, "Email nay da duoc su dung."))
       ELSE Goto(r, "username")
    /\ UNCHANGED <<users, nextId, api_keys, nextKeyId, tokens, now, settings>>

create_user_username(r) ==
    /\ At(r, "create_user", "username")
    /\ IF get_by_username(req[r].a.username) # NullUser
       THEN Reply(r, Err(400, "Ten dang nhap nay da duoc su dung."))
       ELSE Goto(r, "create")
    /\ UNCHANGED <<users, nextId, api_keys, nextKeyId, tokens, now, settings>>

create_user_create(r) ==
    /\ At(r, "create_user", "create")
    /\ CreateCommit(r, req[r].a, 200)
    /\ UNCHANGED <<api_keys, nextKeyId, tokens, now, settings>>

read_user_me(r, tok) ==
    /\ Free(r)
    /\ LET g == get_current_active_user(tok)
       IN  req' = [req EXCEPT ![r] =
                     Finished("read_user_me", tok, NullArgs,
                              IF g.status = 200 THEN UserBody(g.user)
                              ELSE Err(g.status, g.detail))]
    /\ UNCHANGED <<users, nextId, api_keys, nextKeyId, tokens, now, settings>>

\* the uniqueness pre-checks of the two update endpoints: which storage read
\* comes next for update data `a` on the loaded object `user`
NeedsEmailCheck(a, user) == a.email # "unset" /\ a.email # user.email

NeedsUsernameCheck(a, user) == a.username # "unset" /\ a.username # user.username

AfterLoad(a, user) ==
    IF NeedsEmailCheck(a, user) THEN "email"
    ELSE IF NeedsUsernameCheck(a, user) THEN "username"
    ELSE "update"

AfterEmail(a, user) ==
    IF NeedsUsernameCheck(a, user) THEN "username" ELSE "update"

update_user_me(r, tok, a) ==
    /\ LET g == get_current_active_user(tok)
       IN  Enter(r, "update_user_me", tok, a, g, AfterLoad(a, g.user))
    /\ UNCHANGED <<users, nextId, api_keys, nextKeyId, tokens, now, settings>>

update_user_me_email(r) ==
    /\ At(r, "update_user_me", "email")
    /\ IF get_by_email(req[r].a.email) # NullUser
       THEN Reply(r, Err(400, "Email nay da duoc su dung."))
       ELSE Goto(r, AfterEmail(req[r].a, req[r].cu))
    /\ UNCHANGED <<users, nextId, api_keys, nextKeyId, tokens, now, settings>>

update_user_me_username(r) ==
    /\ At(r, "update_user_me", "username")
    /\ IF get_by_username(req[r].a.username) # NullUser
       THEN Reply(r, Err(400, "Ten dang nhap nay da duoc su dung."))
       ELSE Goto(r, "update")
    /\ UNCHANGED <<users, nextId, api_keys, nextKeyId, tokens, now, settings>>

\* user_in = UserUpdate(**jsonable_encoder(current_user)) with the body's
\* full_name, email, username and password laid over it
\* an update of the own record that takes is_active and is_superuser from
\* the body
MeUpdateData_body(cu, a) == UpdateData(cu, UserUpdate(a))

\* update_user_me: full_name, email, username and password are the only
\* members of the body the endpoint declares; the rest of the update data is
\* the encoded current_user
MeUpdateData(cu, a) ==
    UpdateData(cu, UserUpdate([a EXCEPT !.is_active = "unset",
                                        !.is_superuser = "unset",
                                        !.body_id = cu.id]))

update_user_me_update(r) ==
    /\ At(r, "update_user_me", "update")
    /\ UpdateCommit(r, req[r].cu, MeUpdateData(req[r].cu, req[r].a))
    /\ UNCHANGED <<nextId, api_keys, nextKeyId, tokens, now, settings>>

read_user(r, tok, a) ==
    /\ Enter(r, "read_user", tok, a, get_current_active_user(tok), "get")
    /\ UNCHANGED <<users, nextId, api_keys, nextKeyId, tokens, now, settings>>

\* an ownership rule without the superuser exemption
OwnerOrSuperuser_owner_only(owner_id, current_user) ==
    owner_id = current_user.id

OwnerOrSuperuser(owner_id, current_user) ==
    ~(owner_id # current_user.id /\ ~current_user.is_superuser)

read_user_get(r) ==
    /\ At(r, "read_user", "get")
    /\ LET user == SessionGet(req[r].cu, req[r].a.id)
       IN  IF user = NullUser
           THEN Reply(r, Err(404, "Khong tim thay nguoi dung"))
           ELSE IF ~OwnerOrSuperuser(user.id, req[r].cu)
           THEN Reply(r, Err(403, "Khong du quyen truy cap"))
           ELSE Reply(r, UserBody(user))
    /\ UNCHANGED <<users, nextId, api_keys, nextKeyId, tokens, now, settings>>

update_user(r, tok, a) ==
    /\ Enter(r, "update_user", tok, a, get_current_superuser(tok), "get")
    /\ UNCHANGED <<users, nextId, api_keys, nextKeyId, tokens, now, settings>>

update_user_get(r) ==
    /\ At(r, "update_user", "get")
    /\ LET user == SessionGet(req[r].cu, req[r].a.id)
       IN  IF user = NullUser
           THEN Reply(r, Err(404, "Khong tim thay nguoi dung"))
           ELSE req' = [req EXCEPT ![r].tgt = user,
                                   ![r].pc = AfterLoad(req[r].a, user)]
    /\ UNCHANGED <<users, nextId, api_keys, nextKeyId, tokens, now, settings>>

update_user_email(r) ==
    /\ At(r, "update_user", "email")
    /\ IF get_by_email(req[r].a.email) # NullUser
       THEN Reply(r, Err(400, "Email nay da duoc su dung."))
       ELSE Goto(r, AfterEmail(req[r].a, req[r].tgt))
    /\ UNCHANGED <<users, nextId, api_keys, nextKeyId, tokens, now, settings>>

update_user_username(r) ==
    /\ At(r, "update_user", "username")
    /\ IF get_by_username(req[r].a.username) # NullUser
       THEN Reply(r, Err(400, "Ten dang nhap nay da duoc su dung."))
       ELSE Goto(r, "update")
    /\ UNCHANGED <<users, nextId, api_keys, nextKeyId, tokens, now, settings>>

update_user_update(r) ==
    /\ At(r, "update_user", "update")
    /\ UpdateCommit(r, req[r].tgt, UpdateData(req[r].tgt, UserUpdate(req[r].a)))
    /\ UNCHANGED <<nextId, api_keys, nextKeyId, tokens, now, settings>>

delete_user(r, tok, a) ==
    /\ Enter(r, "delete_user", tok, a, get_current_superuser(tok), "get")
    /\ UNCHANGED <<users, nextId, api_keys, nextKeyId, tokens, now, settings>>

SelfDelete == Err(400, "Khong the xoa tai khoan dang su dung")

\* delete without the self-delete test
delete_user_get_noself(r) ==
    /\ At(r, "delete_user", "get")
    /\ LET user == SessionGet(req[r].cu, req[r].a.id)
       IN  IF user = NullUser
           THEN Reply(r, Err(404, "Khong tim thay nguoi dung"))
           ELSE req' = [req EXCEPT ![r].tgt = user, ![r].pc = "remove"]
    /\ UNCHANGED <<users, nextId, api_keys, nextKeyId, tokens, now, settings>>

delete_user_get(r) ==
    /\ At(r, "delete_user", "get")
    /\ LET user == SessionGet(req[r].cu, req[r].a.id)
       IN  IF user = NullUser
           THEN Reply(r, Err(404, "Khong tim thay nguoi dung"))
           ELSE IF user.id = req[r].cu.id
           THEN Reply(r, SelfDelete)
           ELSE req' = [req EXCEPT ![r].tgt = user, ![r].pc = "remove"]
    /\ UNCHANGED <<users, nextId, api_keys, nextKeyId, tokens, now, settings>>

\* CRUDBase.remove: the row is selected again; db.delete(None) raises
delete_user_remove(r) ==
    /\ At(r, "delete_user", "remove")
    /\ LET obj == crud_user_get(req[r].a.id)
       IN  IF obj = NullUser
           THEN users' = users /\ Reply(r, InternalError)
           ELSE users' = users \ {obj} /\ Reply(r, UserBody(obj))
    /\ UNCHANGED <<nextId, api_keys, nextKeyId, tokens, now, settings>>

bulk_delete_users(r, tok, a) ==
    /\ Enter(r, "bulk_delete_users", tok, a, get_current_superuser(tok), "check")
    /\ UNCHANGED <<users, nextId, api_keys, nextKeyId, tokens, now, settings>>

\* bulk delete without the self-delete test
bulk_delete_users_check_absent(r) ==
    /\ At(r, "bulk_delete_users", "check")
    /\ Goto(r, "delete")
    /\ UNCHANGED <<users, nextId, api_keys, nextKeyId, tokens, now, settings>>

\* the self-delete test reads only the resolved principal and the body
bulk_delete_users_check(r) ==
    /\ At(r, "bulk_delete_users", "check")
    /\ IF req[r].cu.id \in req[r].a.ids
       THEN Reply(r, SelfDelete)
       ELSE Goto(r, "delete")
    /\ UNCHANGED <<users, nextId, api_keys, nextKeyId, tokens, now, settings>>

\* CRUDBase.bulk_delete: DELETE ... WHERE id IN ids, the row count returned
bulk_delete_users_delete(r) ==
    /\ At(r, "bulk_delete_users", "delete")
    /\ LET gone == {u \in users : u.id \in req[r].a.ids}
       IN  /\ users' = users \ gone
           /\ Reply(r, [NoResp EXCEPT !.status = 200, !.fields = {"deleted_count"},
                                      !.ids = {u.id : u \in gone}])
    /\ UNCHANGED <<nextId, api_keys, nextKeyId, tokens, now, settings>>

(***************************************************************************)
(* app/crud/api_key.py and app/api/v1/endpoints/api_keys.py                *)
(***************************************************************************)
crud_api_key_get(id) ==
    IF \E k \in api_keys : k.id = id
    THEN CHOOSE k \in api_keys : k.id = id
    ELSE NullKey

get_by_key(key) ==
    IF \E k \in api_keys : k.key = key
    THEN CHOOSE k \in api_keys : k.key = key
    ELSE NullKey

\* APIKeyCreate: is_active defaults to True, expires_at to None (-1)
APIKeyRow(id, key, obj_in, user_id) ==
    [id |-> id, key |-> key, name |-> obj_in.name, user_id |-> user_id,
     is_active |-> IF obj_in.is_active = "unset" THEN TRUE ELSE Bool(obj_in.is_active),
     expires_at |-> obj_in.expires_at]

\* key is unique, user_id references users.id
KeyViolation(row) ==
    \/ \E k \in api_keys : k.key = row.key
    \/ crud_user_get(row.user_id) = NullUser

KeyBody(k) ==
    [NoResp EXCEPT !.status = 200, !.fields = APIKeySchemaFields, !.ids = {k.id}]

KeyListBody(ks) ==
    [NoResp EXCEPT !.status = 200,
                   !.fields = IF ks = {} THEN {} ELSE APIKeySchemaFields,
                   !.ids = {k.id : k \in ks}]

read_api_keys(r, tok) ==
    /\ Enter(r, "read_api_keys", tok, NullArgs, get_current_active_user(tok), "query")
    /\ UNCHANGED <<users, nextId, api_keys, nextKeyId, tokens, now, settings>>

read_api_keys_query(r) ==
    /\ At(r, "read_api_keys", "query")
    /\ Reply(r, KeyListBody({k \in api_keys : k.user_id = req[r].cu.id}))
    /\ UNCHANGED <<users, nextId, api_keys, nextKeyId, tokens, now, settings>>

CreatingKey == {r \in Reqs : req[r].pc = "create"
                             /\ req[r].op \in {"create_api_key",
                                               "create_api_key_with_expiry"}}

MayCreateKey == nextKeyId + Cardinality(CreatingKey) <= MaxKeys

\* CRUDAPIKey.create_with_user with the key create_api_key() drew
create_with_user(r, key, obj_in, user_id) ==
    LET row == APIKeyRow(nextKeyId, key, obj_in, user_id)
    IN  /\ nextKeyId' = nextKeyId + 1
        /\ IF KeyViolation(row)
           THEN api_keys' = api_keys /\ Reply(r, InternalError)
           ELSE api_keys' = api_keys \cup {row} /\ Reply(r, KeyBody(row))

create_api_key(r, tok, a) ==
    /\ MayCreateKey
    /\ Enter(r, "create_api_key", tok, a, get_current_active_user(tok), "create")
    /\ UNCHANGED <<users, nextId, api_keys, nextKeyId, tokens, now, settings>>

create_api_key_create(r, key) ==
    /\ At(r, "create_api_key", "create")
    /\ create_with_user(r, key, req[r].a, req[r].cu.id)
    /\ UNCHANGED <<users, nextId, tokens, now, settings>>

create_api_key_with_expiry(r, tok, a) ==
    /\ MayCreateKey
    /\ Enter(r, "create_api_key_with_expiry", tok, a,
             get_current_active_user(tok), "create")
    /\ UNCHANGED <<users, nextId, api_keys, nextKeyId, tokens, now, settings>>

\* timedelta(days=d) in ticks
Days(d) == d * HoursPerDay * MinutesPerHour * Minutes(1)

\* days_valid: int = Query(30, ge=1, le=365); 0 stands for a request without it
DaysValid(a) == IF a.days_valid = 0 THEN DefaultDaysValid ELSE a.days_valid

\* an expiry that replaces the one the caller gave
WithExpiry_always(obj_in, days_valid) ==
    [obj_in EXCEPT !.expires_at = now + Days(days_valid)]

\* CRUDAPIKey.create_with_expiry: a missing expiry becomes now + days_valid
\* (a datetime is never falsy, so any expiry the caller gave is kept)
WithExpiry(obj_in, days_valid) ==
    IF obj_in.expires_at = -1
    THEN [obj_in EXCEPT !.expires_at = now + Days(days_valid)]
    ELSE obj_in

create_api_key_with_expiry_create(r, key) ==
    /\ At(r, "create_api_key_with_expiry", "create")
    /\ create_with_user(r, key, WithExpiry(req[r].a, DaysValid(req[r].a)),
                        req[r].cu.id)
    /\ UNCHANGED <<users, nextId, tokens, now, settings>>

read_api_key(r, tok, a) ==
    /\ Enter(r, "read_api_key", tok, a, get_current_active_user(tok), "get")
    /\ UNCHANGED <<users, nextId, api_keys, nextKeyId, tokens, now, settings>>

KeyGate(api_key, current_user) ==
    IF api_key = NullKey THEN Err(404, "API key not found")
    ELSE IF ~OwnerOrSuperuser(api_key.user_id, current_user)
    THEN Err(403, "Not enough permissions")
    ELSE [NoResp EXCEPT !.status = 200]

read_api_key_get(r) ==
    /\ At(r, "read_api_key", "get")
    /\ LET api_key == crud_api_key_get(req[r].a.id)
           gate == KeyGate(api_key, req[r].cu)
       IN  Reply(r, IF gate.status = 200 THEN KeyBody(api_key) ELSE gate)
    /\ UNCHANGED <<users, nextId, api_keys, nextKeyId, tokens, now, settings>>

update_api_key(r, tok, a) ==
    /\ Enter(r, "update_api_key", tok, a, get_current_active_user(tok), "get")
    /\ UNCHANGED <<users, nextId, api_keys, nextKeyId, tokens, now, settings>>

update_api_key_get(r) ==
    /\ At(r, "update_api_key", "get")
    /\ LET api_key == crud_api_key_get(req[r].a.id)
           gate == KeyGate(api_key, req[r].cu)
       IN  IF gate.status = 200
           THEN req' = [req EXCEPT ![r].key = api_key, ![r].pc = "update"]
           ELSE Reply(r, gate)
    /\ UNCHANGED <<users, nextId, api_keys, nextKeyId, tokens, now, settings>>

\* a schema that keeps the fields it does not declare
APIKeyUpdate_extra(body) == body

\* APIKeyUpdate(**body): the schema declares neither key nor user_id
APIKeyUpdate(body) == [body EXCEPT !.key = "None", !.user_id = 0]

\* APIKeyUpdate through CRUDBase.update: every column named in the update
\* data is set; the schema names name, is_active and expires_at
KeyUpdateData(db_obj, obj_in) ==
    [db_obj EXCEPT
       !.key = IF obj_in.key = "None" THEN @ ELSE obj_in.key,
       !.user_id = IF obj_in.user_id = 0 THEN @ ELSE obj_in.user_id,
       !.name = IF obj_in.name = "unset" THEN @ ELSE obj_in.name,
       !.is_active = IF obj_in.is_active = "unset" THEN @ ELSE Bool(obj_in.is_active),
       !.expires_at = IF obj_in.expires_at = -1 THEN @ ELSE obj_in.expires_at]

KeyFlushedRow(stored, db_obj, new) ==
    [stored EXCEPT
       !.key = IF new.key # db_obj.key THEN new.key ELSE @,
       !.user_id = IF new.user_id # db_obj.user_id THEN new.user_id ELSE @,
       !.name = IF new.name # db_obj.name THEN new.name ELSE @,
       !.is_active = IF new.is_active # db_obj.is_active THEN new.is_active ELSE @,
       !.expires_at = IF new.expires_at # db_obj.expires_at THEN new.expires_at ELSE @]

update_api_key_update(r) ==
    /\ At(r, "update_api_key", "update")
    /\ LET db_obj == req[r].key
           stored == crud_api_key_get(db_obj.id)
           flushed == KeyFlushedRow(stored, db_obj,
                                    KeyUpdateData(db_obj, APIKeyUpdate(req[r].a)))
       IN  IF stored = NullKey
           THEN api_keys' = api_keys /\ Reply(r, InternalError)
           ELSE /\ api_keys' = (api_keys \ {stored}) \cup {flushed}
                /\ Reply(r, KeyBody(flushed))
    /\ UNCHANGED <<users, nextId, nextKeyId, tokens, now, settings>>

delete_api_key(r, tok, a) ==
    /\ Enter(r, "delete_api_key", tok, a, get_current_active_user(tok), "get")
    /\ UNCHANGED <<users, nextId, api_keys, nextKeyId, tokens, now, settings>>

\* a delete that removes the key before it looks at the owner
delete_api_key_get_eager(r) ==
    /\ At(r, "delete_api_key", "get")
    /\ LET api_key == crud_api_key_get(req[r].a.id)
           gate == KeyGate(api_key, req[r].cu)
       IN  /\ api_keys' = api_keys \ {api_key}
           /\ Reply(r, IF gate.status = 200 THEN KeyBody(api_key) ELSE gate)
    /\ UNCHANGED <<users, nextId, nextKeyId, tokens, now, settings>>

delete_api_key_get(r) ==
    /\ At(r, "delete_api_key", "get")
    /\ LET api_key == crud_api_key_get(req[r].a.id)
           gate == KeyGate(api_key, req[r].cu)
       IN  IF gate.status = 200
           THEN req' = [req EXCEPT ![r].key = api_key, ![r].pc = "remove"]
           ELSE Reply(r, gate)
    /\ UNCHANGED <<users, nextId, api_keys, nextKeyId, tokens, now, settings>>

delete_api_key_remove(r) ==
    /\ At(r, "delete_api_key", "remove")
    /\ LET obj == crud_api_key_get(req[r].a.id)
       IN  IF obj = NullKey
           THEN api_keys' = api_keys /\ Reply(r, InternalError)
           ELSE api_keys' = api_keys \ {obj} /\ Reply(r, KeyBody(obj))
    /\ UNCHANGED <<users, nextId, nextKeyId, tokens, now, settings>>

\* CRUDAPIKey.is_active.  expires_at is a DateTime(timezone=True) column:
\* the row carries an aware datetime on PostgreSQL and a naive one on SQLite,
\* and comparing an aware datetime with datetime.utcnow() raises TypeError
CRUDAPIKey_is_active(api_key, aware) ==
    IF ~api_key.is_active THEN "False"
    ELSE IF api_key.expires_at = -1 THEN "True"
    ELSE IF aware THEN "TypeError"
    ELSE IF api_key.expires_at > now THEN "True"
    ELSE "False"

\* a call of CRUDAPIKey.is_active on the stored key `id`
is_active_call(r, id) ==
    /\ Free(r)
    /\ crud_api_key_get(id) # NullKey
    /\ \E aware \in BOOLEAN :
         LET result == CRUDAPIKey_is_active(crud_api_key_get(id), aware)
         IN  req' = [req EXCEPT ![r] =
                       Finished("is_active", NullToken, [NullArgs EXCEPT !.id = id],
                                IF result = "TypeError" THEN InternalError
                                ELSE [NoResp EXCEPT !.status = 200, !.detail = result])]
    /\ UNCHANGED <<users, nextId, api_keys, nextKeyId, tokens, now, settings>>

\* the X-API-Key header was not sent
NoKey == "None"

\* a resolution that does not look at the key's is_active
get_user_by_api_key_any_key(api_key, aware) ==
    LET api_key_obj == get_by_key(api_key)
        user == crud_user_get(api_key_obj.user_id)
    IN  IF api_key = NoKey
        THEN [status |-> 401, detail |-> "API key is missing", user |-> NullUser]
        ELSE IF api_key_obj = NullKey
        THEN [status |-> 401, detail |-> "Invalid API key", user |-> NullUser]
        ELSE IF user = NullUser
        THEN [status |-> 404, detail |-> "User not found", user |-> NullUser]
        ELSE [status |-> 200, detail |-> "", user |-> user]

\* get_user_by_api_key (the server's local time is taken to be UTC)
get_user_by_api_key(api_key, aware) ==
    LET api_key_obj == get_by_key(api_key)
        user == crud_user_get(api_key_obj.user_id)
    IN  IF api_key = NoKey
        THEN [status |-> 401, detail |-> "API key is missing", user |-> NullUser]
        ELSE IF api_key_obj = NullKey
        THEN [status |-> 401, detail |-> "Invalid API key", user |-> NullUser]
        ELSE IF ~api_key_obj.is_active
        THEN [status |-> 401, detail |-> "API key is inactive", user |-> NullUser]
        ELSE IF api_key_obj.expires_at # -1 /\ aware
        THEN [status |-> 500, detail |-> "Internal Server Error", user |-> NullUser]
        ELSE IF api_key_obj.expires_at # -1 /\ api_key_obj.expires_at < now
        THEN [status |-> 401, detail |-> "API key has expired", user |-> NullUser]
        ELSE IF user = NullUser
        THEN [status |-> 404, detail |-> "User not found", user |-> NullUser]
        ELSE IF ~user.is_active
        THEN [status |-> 400, detail |-> "Inactive user", user |-> NullUser]
        ELSE [status |-> 200, detail |-> "", user |-> user]

\* a resolution that deletes the key it refuses
get_user_by_api_key_call_purging(r, api_key) ==
    /\ Free(r)
    /\ \E aware \in BOOLEAN :
         LET g == get_user_by_api_key(api_key, aware)
         IN  /\ req' = [req EXCEPT ![r] =
                          Finished("get_user_by_api_key", NullToken,
                                   [NullArgs EXCEPT !.key = api_key],
                                   IF g.status = 200
                                   THEN [NoResp EXCEPT !.status = 200, !.ids = {g.user.id}]
                                   ELSE Err(g.status, g.detail))]
             /\ api_keys' = IF g.status = 200 THEN api_keys
                            ELSE api_keys \ {get_by_key(api_key)}
    /\ UNCHANGED <<users, nextId, nextKeyId, tokens, now, settings>>

\* a request that resolves its principal from the X-API-Key header
get_user_by_api_key_call(r, api_key) ==
    /\ Free(r)
    /\ \E aware \in BOOLEAN :
         LET g == get_user_by_api_key(api_key, aware)
         IN  req' = [req EXCEPT ![r] =
                       Finished("get_user_by_api_key", NullToken,
                                [NullArgs EXCEPT !.key = api_key],
                                IF g.status = 200
                                THEN [NoResp EXCEPT !.status = 200, !.ids = {g.user.id}]
                                ELSE Err(g.status, g.detail))]
    /\ UNCHANGED <<users, nextId, api_keys, nextKeyId, tokens, now, settings>>

(***************************************************************************)
(* Request bodies                                                          *)
(***************************************************************************)
LoginArgs ==
    {[NullArgs EXCEPT !.username = n, !.password = p] :
        n \in Emails \cup Usernames, p \in Passwords}

\* the credentials the stored accounts were created with
KnownLogins ==
    {[NullArgs EXCEPT !.username = FIRST_SUPERUSER_EMAIL,
                      !.password = FIRST_SUPERUSER_PASSWORD]}
    \cup {[NullArgs EXCEPT !.username = n, !.password = "p"] : n \in Usernames}

RegisterArgs ==
    {[NullArgs EXCEPT !.email = e, !.username = n, !.password = "p",
                      !.is_superuser = s] :
        e \in Emails, n \in Usernames, s \in OptBool}

CreateArgs ==
    {[NullArgs EXCEPT !.email = e, !.username = n, !.password = "p"] :
        e \in Emails, n \in Usernames}

FlagUpdateArgs ==
    {[NullArgs EXCEPT !.id = i, !.is_active = b] : i \in UserIds, b \in {"true", "false"}}
    \cup {[NullArgs EXCEPT !.id = i, !.is_superuser = b] :
            i \in UserIds, b \in {"true", "false"}}

IdentityUpdateArgs ==
    {[NullArgs EXCEPT !.id = i, !.email = e, !.username = n] :
        i \in UserIds, e \in {"x@x.com"}, n \in {"unset", "u1"}}

MeArgs ==
    {[NullArgs EXCEPT !.email = e, !.username = n] :
        e \in {"unset", FIRST_SUPERUSER_EMAIL}, n \in {FIRST_SUPERUSER_USERNAME}}

IdArgs == {[NullArgs EXCEPT !.id = i] : i \in UserIds}

BulkArgs ==
    {[NullArgs EXCEPT !.ids = ids] :
        ids \in {{i} : i \in UserIds} \cup {{i, j} : i, j \in UserIds}}

\* the registration of the one user besides the administrator
KeyOwnerArgs == {a \in CreateArgs : a.email = "x@x.com" /\ a.username = "u1"}

KeyCreateArgs == {[NullArgs EXCEPT !.name = "n1"]}

KeyIdArgs == {[NullArgs EXCEPT !.id = i] : i \in KeyIds}

KeyUpdateArgs ==
    {[NullArgs EXCEPT !.id = i, !.name = "n2"] : i \in KeyIds}
    \cup {[NullArgs EXCEPT !.id = i, !.is_active = "false"] : i \in KeyIds}

ListArgs ==
    {[NullArgs EXCEPT !.search = t] : t \in {"unset", "adm"}}
    \cup {[NullArgs EXCEPT !.is_active = "true", !.is_superuser = "false"]}

(***************************************************************************)
(* Specifications                                                          *)
(***************************************************************************)
\* one request at a time through the auth and user endpoints
Next ==
    \E r \in {1} :
        \/ \E a \in KnownLogins : login_access_token(r, a)
        \/ login_access_token_username(r)
        \/ \E a \in RegisterArgs : register_user(r, a)
        \/ register_user_username(r)
        \/ register_user_create(r)
        \/ create_admin(r)
        \/ create_admin_create(r)
        \/ \E tok \in Presentable :
             \/ \E a \in ListArgs : read_users(r, tok, a)
             \/ read_all_users(r, tok)
             \/ read_user_me(r, tok)
             \/ \E a \in IdArgs : read_user(r, tok, a)
             \/ \E a \in FlagUpdateArgs : update_user(r, tok, a)
             \/ \E a \in IdArgs : delete_user(r, tok, a)
             \/ \E a \in BulkArgs : bulk_delete_users(r, tok, a)
        \/ read_users_query(r)
        \/ read_all_users_query(r)
        \/ read_user_get(r)
        \/ update_user_get(r)
        \/ update_user_update(r)
        \/ delete_user_get(r)
        \/ delete_user_remove(r)
        \/ bulk_delete_users_check(r)
        \/ bulk_delete_users_delete(r)

Spec == Init /\ [][Next]_vars

\* two requests in flight through the endpoints that write email and username;
\* the requests shown are the ones the authorization gate admits
NextRace ==
    \E r \in Reqs :
        \/ \E a \in KnownLogins : login_access_token(r, a)
        \/ login_access_token_username(r)
        \/ \E a \in CreateArgs : register_user(r, a)
        \/ register_user_username(r)
        \/ register_user_create(r)
        \/ create_admin(r)
        \/ create_admin_create(r)
        \/ \E tok \in tokens :
             \/ \E a \in CreateArgs :
                  get_current_superuser(tok).status = 200 /\ create_user(r, tok, a)
             \/ \E a \in MeArgs :
                  get_current_active_user(tok).status = 200 /\ update_user_me(r, tok, a)
             \/ \E a \in IdentityUpdateArgs :
                  get_current_superuser(tok).status = 200 /\ update_user(r, tok, a)
        \/ create_user_email(r)
        \/ create_user_username(r)
        \/ create_user_create(r)
        \/ update_user_me_email(r)
        \/ update_user_me_username(r)
        \/ update_user_me_update(r)
        \/ update_user_get(r)
        \/ update_user_email(r)
        \/ update_user_username(r)
        \/ update_user_update(r)

SpecRace == Init /\ [][NextRace]_vars

\* one request at a time through the API-key endpoints and the user read
NextKeys ==
    \E r \in {1} :
        \/ \E a \in KnownLogins : login_access_token(r, a)
        \/ login_access_token_username(r)
        \/ \E a \in KeyOwnerArgs : register_user(r, a)
        \/ register_user_username(r)
        \/ register_user_create(r)
        \/ create_admin(r)
        \/ create_admin_create(r)
        \/ \E tok \in Presentable :
             \/ read_api_keys(r, tok)
             \/ \E a \in KeyCreateArgs : create_api_key(r, tok, a)
             \/ \E a \in KeyIdArgs : read_api_key(r, tok, a)
             \/ \E a \in KeyUpdateArgs : update_api_key(r, tok, a)
             \/ \E a \in KeyIdArgs : delete_api_key(r, tok, a)
             \/ \E a \in IdArgs : read_user(r, tok, a)
        \/ read_api_keys_query(r)
        \/ \E key \in KeyValues : create_api_key_create(r, key)
        \/ read_api_key_get(r)
        \/ update_api_key_get(r)
        \/ update_api_key_update(r)
        \/ delete_api_key_get(r)
        \/ delete_api_key_remove(r)
        \/ read_user_get(r)

SpecKeys == Init /\ [][NextKeys]_vars

\* the clock moves on by a tick, or by a minute
Tick ==
    /\ now % Minutes(1) < MaxTicks
    /\ now' = now + 1
    /\ UNCHANGED <<users, nextId, api_keys, nextKeyId, tokens, settings, req>>

TickMinute ==
    /\ now + Minutes(1) <= MaxTime
    /\ now' = now + Minutes(1)
    /\ UNCHANGED <<users, nextId, api_keys, nextKeyId, tokens, settings, req>>

\* a direct call of create_access_token; the caller keeps the token
create_access_token_call(r, subject, expires_delta) ==
    /\ Free(r)
    /\ LET token == create_access_token(subject, expires_delta)
       IN  /\ req' = [req EXCEPT ![r] =
                        Finished("create_access_token", NullToken,
                                 [NullArgs EXCEPT !.id = subject,
                                                  !.expires_delta = expires_delta],
                                 [NoResp EXCEPT !.status = 200, !.token = token])]
           /\ tokens' = tokens \cup {token}
    /\ UNCHANGED <<users, nextId, api_keys, nextKeyId, now, settings>>

\* tokens issued while the clock is watched
MaxTokens == 1

\* ACCESS_TOKEN_EXPIRE_MINUTES as the environment may set it
ConfiguredMinutes == {ACCESS_TOKEN_EXPIRE_MINUTES, 1}

InitConfigured ==
    /\ users = {}
    /\ nextId = 1
    /\ api_keys = {}
    /\ nextKeyId = 1
    /\ tokens = {}
    /\ now = 0
    /\ settings \in {[ACCESS_TOKEN_EXPIRE_MINUTES |-> m] : m \in ConfiguredMinutes}
    /\ req = [r \in Reqs |-> IdleReq]

\* a second user whose username reads like the administrator's email
TokenUserArgs ==
    {[NullArgs EXCEPT !.email = "x@x.com", !.username = FIRST_SUPERUSER_EMAIL,
                      !.password = "p"]}

\* identifiers of the administrator, of the second user and of nobody
TokenLoginArgs ==
    {[NullArgs EXCEPT !.username = n, !.password = p] :
        n \in {FIRST_SUPERUSER_EMAIL, "x@x.com", "u1"}, p \in Passwords}

ActiveFlagArgs == {a \in FlagUpdateArgs : a.is_active # "unset"}

TokenDeltas == {NoDelta, 0, TicksPerSecond}

\* a token is issued, by login or by a direct call of create_access_token
\* (slot 2 holds the call), and checked while the clock runs
NextToken ==
    \/ Tick
    \/ TickMinute
    \/ \E subject \in UserIds : \E expires_delta \in TokenDeltas :
         Cardinality(tokens) < MaxTokens
         /\ create_access_token_call(2, subject, expires_delta)
    \/ \E r \in {1} :
        \/ create_admin(r)
        \/ create_admin_create(r)
        \/ \E a \in TokenUserArgs : register_user(r, a)
        \/ register_user_username(r)
        \/ register_user_create(r)
        \/ \E a \in TokenLoginArgs :
             Cardinality(tokens) < MaxTokens /\ login_access_token(r, a)
        \/ login_access_token_username(r)
        \/ \E tok \in Presentable : test_token(r, tok)

SpecToken == InitConfigured /\ [][NextToken]_vars

\* one request at a time through login, the token check and the endpoints
\* that deactivate and delete users, while the clock runs
NextLogin ==
    \/ Tick
    \/ \E r \in {1} :
        \/ create_admin(r)
        \/ create_admin_create(r)
        \/ \E a \in TokenUserArgs : register_user(r, a)
        \/ register_user_username(r)
        \/ register_user_create(r)
        \/ \E a \in TokenLoginArgs :
             Cardinality(tokens) < MaxUsers /\ login_access_token(r, a)
        \/ login_access_token_username(r)
        \/ \E tok \in Presentable :
             \/ test_token(r, tok)
             \/ \E a \in ActiveFlagArgs : update_user(r, tok, a)
             \/ \E a \in IdArgs : delete_user(r, tok, a)
        \/ update_user_get(r)
        \/ update_user_update(r)
        \/ delete_user_get(r)
        \/ delete_user_remove(r)

SpecLogin == Init /\ [][NextLogin]_vars

\* keys without an expiry and keys that expire at tick 2
KeyExpiryArgs ==
    {[NullArgs EXCEPT !.name = "n1", !.expires_at = e] : e \in {-1, 2}}

KeyActiveArgs ==
    {[NullArgs EXCEPT !.id = i, !.is_active = b] : i \in KeyIds, b \in {"true", "false"}}

AdminLogin ==
    {[NullArgs EXCEPT !.username = FIRST_SUPERUSER_EMAIL,
                      !.password = FIRST_SUPERUSER_PASSWORD]}

\* one request at a time: the administrator creates, deactivates and deletes
\* API keys, and keys are presented and tested while the clock runs
NextResolve ==
    \/ Tick
    \/ \E r \in {1} :
        \/ create_admin(r)
        \/ create_admin_create(r)
        \/ \E a \in AdminLogin :
             Cardinality(tokens) < MaxUsers /\ login_access_token(r, a)
        \/ \E tok \in tokens :
             \/ \E a \in KeyExpiryArgs : create_api_key(r, tok, a)
             \/ \E a \in KeyActiveArgs : update_api_key(r, tok, a)
             \/ \E a \in KeyIdArgs : delete_api_key(r, tok, a)
             \/ \E a \in ActiveFlagArgs : update_user(r, tok, a)
        \/ \E key \in KeyValues : create_api_key_create(r, key)
        \/ update_api_key_get(r)
        \/ update_api_key_update(r)
        \/ delete_api_key_get(r)
        \/ delete_api_key_remove(r)
        \/ update_user_get(r)
        \/ update_user_update(r)
        \/ \E api_key \in KeyValues \cup {NoKey} : get_user_by_api_key_call(r, api_key)
        \/ \E id \in KeyIds : is_active_call(r, id)

SpecResolve == Init /\ [][NextResolve]_vars

\* bodies of POST /api-keys/with-expiry: with and without an expiry, with and
\* without days_valid
ExpiryArgs ==
    {[NullArgs EXCEPT !.name = "n1", !.expires_at = e, !.days_valid = d] :
        e \in {-1, 2}, d \in {0, 1}}

\* one request at a time: the administrator creates API keys on both creation
\* paths while the clock runs
NextExpiry ==
    \/ Tick
    \/ \E r \in {1} :
        \/ create_admin(r)
        \/ create_admin_create(r)
        \/ \E a \in AdminLogin :
             Cardinality(tokens) < MaxTokens /\ login_access_token(r, a)
        \/ \E tok \in tokens :
             \/ \E a \in KeyExpiryArgs : create_api_key(r, tok, a)
             \/ \E a \in ExpiryArgs : create_api_key_with_expiry(r, tok, a)
        \/ \E key \in KeyValues : create_api_key_create(r, key)
        \/ \E key \in KeyValues : create_api_key_with_expiry_create(r, key)

SpecExpiry == Init /\ [][NextExpiry]_vars

\* passwords a client may send: the two initial ones, a new one, the empty one
AllPasswords == Passwords \cup {"p2", ""}

AccountLogins ==
    {[NullArgs EXCEPT !.username = n, !.password = p] :
        n \in {FIRST_SUPERUSER_EMAIL, "u1"}, p \in AllPasswords}

\* bodies of PUT /users/me: with and without a password and a full name, and
\* with members the endpoint does not declare
AccountMeArgs ==
    {[NullArgs EXCEPT !.password = p, !.full_name = f] :
        p \in {"unset", "p2", ""}, f \in {"unset", "f"}}
    \cup {[NullArgs EXCEPT !.password = p, !.is_active = "false",
                           !.is_superuser = "true", !.body_id = 2] :
            p \in {"unset", "p2"}}

\* bodies of PUT /users/{user_id}: with and without a password, with and
\* without an "id" member
AccountUpdateArgs ==
    {[NullArgs EXCEPT !.id = i, !.password = p, !.body_id = b] :
        i \in UserIds, p \in {"unset", "p2", ""}, b \in {0, 2}}

\* one request at a time: accounts are created, their passwords are changed
\* by their owners and by the administrator, and they log in
NextAccount ==
    \E r \in {1} :
        \/ create_admin(r)
        \/ create_admin_create(r)
        \/ \E a \in KeyOwnerArgs : register_user(r, a)
        \/ register_user_username(r)
        \/ register_user_create(r)
        \/ \E a \in AccountLogins : login_access_token(r, a)
        \/ login_access_token_username(r)
        \/ \E tok \in Presentable :
             \/ \E a \in AccountMeArgs : update_user_me(r, tok, a)
             \/ \E a \in AccountUpdateArgs : update_user(r, tok, a)
        \/ update_user_me_update(r)
        \/ update_user_get(r)
        \/ update_user_update(r)

SpecAccount == Init /\ [][NextAccount]_vars

\* the body with which the administrator creates a second superuser
SecondAdminArgs == {[a EXCEPT !.is_superuser = "true"] : a \in KeyOwnerArgs}

\* two superusers are set up one request at a time; delete requests of both
\* are then in flight together
NextDelete ==
    \/ \E r \in {1} :
        \/ create_admin(r)
        \/ create_admin_create(r)
        \/ \E a \in KnownLogins :
             Cardinality(tokens) < MaxUsers /\ login_access_token(r, a)
        \/ login_access_token_username(r)
        \/ \E tok \in tokens : \E a \in SecondAdminArgs : create_user(r, tok, a)
        \/ create_user_email(r)
        \/ create_user_username(r)
        \/ create_user_create(r)
    \/ \E r \in Reqs :
        \/ \E tok \in tokens :
             \/ \E a \in IdArgs : delete_user(r, tok, a)
             \/ \E a \in BulkArgs : bulk_delete_users(r, tok, a)
        \/ delete_user_get(r)
        \/ delete_user_remove(r)
        \/ bulk_delete_users_check(r)
        \/ bulk_delete_users_delete(r)

SpecDelete == Init /\ [][NextDelete]_vars

\* bodies of the key creation with and without a user_id member
OwnerCreateArgs ==
    {[NullArgs EXCEPT !.name = "n1", !.user_id = u] : u \in {0} \cup UserIds}

\* bodies of the key update with and without user_id and key members
OwnerUpdateArgs ==
    {[NullArgs EXCEPT !.id = i, !.name = "n2", !.user_id = u, !.key = k] :
        i \in KeyIds, u \in {0} \cup UserIds, k \in {"None", "k2"}}

\* one request at a time: the administrator and a second user create API keys
\* on both creation paths and update them
NextOwner ==
    \E r \in {1} :
        \/ create_admin(r)
        \/ create_admin_create(r)
        \/ \E a \in KeyOwnerArgs : register_user(r, a)
        \/ register_user_username(r)
        \/ register_user_create(r)
        \/ \E a \in KnownLogins : login_access_token(r, a)
        \/ login_access_token_username(r)
        \/ \E tok \in tokens :
             \/ \E a \in OwnerCreateArgs : create_api_key(r, tok, a)
             \/ \E a \in OwnerCreateArgs : create_api_key_with_expiry(r, tok, a)
             \/ \E a \in OwnerUpdateArgs : update_api_key(r, tok, a)
        \/ \E key \in KeyValues : create_api_key_create(r, key)
        \/ \E key \in KeyValues : create_api_key_with_expiry_create(r, key)
        \/ update_api_key_get(r)
        \/ update_api_key_update(r)

SpecOwner == Init /\ [][NextOwner]_vars

\* rows of the users table a paginated query may find
MaxRows == 5

RowEmails ==
    <<FIRST_SUPERUSER_EMAIL, "x@x.com", "a@a.com", "b@b.com", "c@c.com", "d@d.com">>

RowUsernames == <<FIRST_SUPERUSER_USERNAME, "u1", "u2", "u3", "u4", "u5">>

\* the administrator and the users created after it; every other one inactive
Row(i) ==
    [id |-> i, email |-> RowEmails[i], username |-> RowUsernames[i],
     hashed_password |-> get_password_hash("p"), full_name |-> "None",
     is_active |-> i % 2 = 1, is_superuser |-> i = 1]

InitRows ==
    /\ \E n \in 0..MaxRows :
         /\ users = {Row(i) : i \in 1..n}
         /\ nextId = n + 1
    /\ api_keys = {}
    /\ nextKeyId = 1
    /\ tokens = {}
    /\ now = 0
    /\ settings = DefaultSettings
    /\ req = [r \in Reqs |-> IdleReq]

\* pages before the first and past the last, page sizes below 1 and above 100
PageArgs ==
    {[NullArgs EXCEPT !.page = p, !.page_size = s, !.sort_order = o] :
        p \in 0..4, s \in {0, 1, 2, 3, 100, 101}, o \in {"asc", "desc"}}

FilterArgs ==
    {[a EXCEPT !.is_active = b] : a \in PageArgs, b \in {"true", "false"}}
    \cup {[a EXCEPT !.is_superuser = "false"] : a \in PageArgs}

SearchArgs == {[a EXCEPT !.search = t] : a \in PageArgs, t \in {"adm", "x"}}

\* the paginated queries over tables of every size up to MaxRows
NextRows ==
    \E r \in {1} :
        \/ \E a \in PageArgs : get_multi_paginated_call(r, a)
        \/ \E a \in FilterArgs : filter_by_call(r, a)
        \/ \E a \in SearchArgs : search_call(r, a)

SpecRows == InitRows /\ [][NextRows]_vars

KeyRenameArgs == {a \in KeyUpdateArgs : a.name # "unset"}

\* updates that take the administrator's email
TakenEmailArgs ==
    {[NullArgs EXCEPT !.id = i, !.email = FIRST_SUPERUSER_EMAIL] : i \in UserIds}

\* one request at a time through the user, auth and API-key endpoints, with
\* tokens of the administrator, of a second user, forged ones and none; one
\* key value, so that one key is stored at a time
NextRejects ==
    \E r \in {1} :
        \/ \E a \in KnownLogins : login_access_token(r, a)
        \/ login_access_token_username(r)
        \/ \E a \in KeyOwnerArgs : register_user(r, a)
        \/ register_user_username(r)
        \/ register_user_create(r)
        \/ create_admin(r)
        \/ create_admin_create(r)
        \/ \E tok \in Presentable :
             \/ \E a \in MeArgs : update_user_me(r, tok, a)
             \/ \E a \in TakenEmailArgs : update_user(r, tok, a)
             \/ \E a \in IdArgs : delete_user(r, tok, a)
             \/ \E a \in BulkArgs : bulk_delete_users(r, tok, a)
             \/ \E a \in KeyCreateArgs : create_api_key(r, tok, a)
             \/ \E a \in KeyRenameArgs : update_api_key(r, tok, a)
             \/ \E a \in KeyIdArgs : delete_api_key(r, tok, a)
        \/ update_user_me_email(r)
        \/ update_user_me_username(r)
        \/ update_user_me_update(r)
        \/ update_user_get(r)
        \/ update_user_email(r)
        \/ update_user_update(r)
        \/ delete_user_get(r)
        \/ delete_user_remove(r)
        \/ bulk_delete_users_check(r)
        \/ bulk_delete_users_delete(r)
        \/ \E key \in {"k1"} : create_api_key_create(r, key)
        \/ update_api_key_get(r)
        \/ update_api_key_update(r)
        \/ delete_api_key_get(r)
        \/ delete_api_key_remove(r)

SpecRejects == Init /\ [][NextRejects]_vars

(***************************************************************************)
(* Properties                                                              *)
(***************************************************************************)
\* the step, if any, that request slot r takes
Steps(r) == req'[r] # req[r]

Done(r, op) == req[r].op = op /\ req[r].pc = "done"

\* C1: no response body of any endpoint carries the hashed_password field of
\* a user.
C1_HashedPasswordNeverExposed ==
    \A r \in Reqs : "hashed_password" \notin req[r].resp.fields

\* C2: of two creation requests (register or admin create_user) with the same
\* email or the same username, when one stored its user the other ends in a
\* 400-class Conflict, never in a 500-class failure.
C2_DuplicateCreationIsConflict ==
    \A r, q \in Reqs :
        /\ r # q
        /\ req[r].op \in {"register_user", "create_user"} /\ req[r].pc = "done"
        /\ req[q].op \in {"register_user", "create_user"} /\ req[q].pc = "done"
        /\ req[r].a.email = req[q].a.email \/ req[r].a.username = req[q].a.username
        /\ req[q].resp.status = 200
        => req[r].resp.status < 500

\* C3: no two stored users share an email and no two stored users share a
\* username, in every state the write endpoints reach in any interleaving.
C3_EmailAndUsernameUnique ==
    \A u, v \in users :
        u # v => u.email # v.email /\ u.username # v.username

\* a write was refused after its pre-checks passed while another user is stored
C3_Witness ==
    /\ Cardinality(users) = 2
    /\ \E r \in Reqs :
         /\ req[r].op \in {"register_user", "create_user", "update_user",
                           "update_user_me", "create_admin"}
         /\ req[r].resp = InternalError

\* C4: the row a self-registration stores has is_superuser = false, whatever
\* is_superuser value (true, false, absent) the request body carried.
C4_RegisterNeverSuperuser ==
    [][\A r \in Reqs :
         At(r, "register_user", "create") /\ Steps(r)
             => /\ \A u \in users' \ users : ~u.is_superuser
                /\ req'[r].resp.status = 200
                     => \E u \in users' \ users : req'[r].resp.ids = {u.id}]_vars

C4_Witness ==
    \E r \in Reqs :
        /\ Done(r, "register_user")
        /\ req[r].a.is_superuser = "true"
        /\ req[r].resp.status = 200
        /\ \E u \in users : u.id \in req[r].resp.ids /\ ~u.is_superuser

\* C5: a bulk delete whose id list contains the acting superuser's id fails
\* with the self-delete error (400) and deletes nothing.
C5_BulkDeleteAllOrNothing ==
    [][\A r \in Reqs :
         /\ req[r].op = "bulk_delete_users"
         /\ req[r].pc # "done"
         /\ req[r].cu.id \in req[r].a.ids
         /\ Steps(r)
         => /\ users' = users
            /\ req'[r].pc = "done"
            /\ req'[r].resp = SelfDelete]_vars

C5_Witness ==
    \E r \in Reqs :
        /\ Done(r, "bulk_delete_users")
        /\ req[r].resp = SelfDelete
        /\ Cardinality(req[r].a.ids) = 2
        /\ Cardinality(users) = 2

\* C6: delete_user on the actor's own id fails with the self-delete error
\* (400), and no step of a delete_user request removes the actor's record.
C6_NoSelfDelete ==
    [][\A r \in Reqs :
         req[r].op = "delete_user" /\ req[r].pc # "done" /\ Steps(r)
         => /\ \A u \in users \ users' : u.id # req[r].cu.id
            /\ req[r].a.id = req[r].cu.id
                 => users' = users /\ req'[r].pc = "done"
                    /\ req'[r].resp = SelfDelete]_vars

C6_Witness ==
    \E r \in Reqs :
        /\ Done(r, "delete_user")
        /\ req[r].resp = SelfDelete
        /\ \E u \in users : u.id = req[r].a.id

\* the id of the owner of the resource request r names: the user itself for
\* the user read, the key's user_id for the API-key endpoints; 0 when the
\* resource does not exist
OwnerOf(r) ==
    IF req[r].op = "read_user"
    THEN crud_user_get(req[r].a.id).id
    ELSE crud_api_key_get(req[r].a.id).user_id

OwnershipGated == {"read_user", "read_api_key", "update_api_key", "delete_api_key"}

\* C7: on the API-key read, update and delete and on the user read, the
\* request of an active actor for an existing resource gets past the
\* ownership check if and only if actor.id is the owner's id or the actor is
\* superuser; otherwise it ends with Forbidden (403), the response carries no
\* resource and nothing stored changes.
C7_OwnershipGate ==
    [][\A r \in Reqs :
         /\ req[r].op \in OwnershipGated
         /\ req[r].pc = "get"
         /\ OwnerOf(r) # 0
         /\ Steps(r)
         => LET actor == req[r].cu
                allowed == OwnerOf(r) = actor.id \/ actor.is_superuser
            IN  /\ allowed => /\ req'[r].resp.status # 403
                              /\ req[r].op \in {"read_user", "read_api_key"}
                                   => /\ req'[r].resp.status = 200
                                      /\ req'[r].resp.ids = {req[r].a.id}
                              /\ req[r].op = "update_api_key" => req'[r].pc = "update"
                              /\ req[r].op = "delete_api_key" => req'[r].pc = "remove"
                /\ ~allowed => /\ req'[r].pc = "done"
                               /\ req'[r].resp.status = 403
                               /\ req'[r].resp.ids = {}
                               /\ req'[r].resp.fields = {}
                               /\ users' = users
                               /\ api_keys' = api_keys]_vars

\* a non-superuser was refused the key of another user, which is still stored
C7_Witness ==
    \E r \in Reqs : \E k \in api_keys :
        /\ Done(r, "update_api_key")
        /\ req[r].resp.status = 403
        /\ k.id = req[r].a.id
        /\ k.user_id # IdOfStr(req[r].tok.sub)
        /\ ~crud_user_get(IdOfStr(req[r].tok.sub)).is_superuser

\* the endpoints behind get_current_superuser
SuperuserGated ==
    {"read_users", "read_all_users", "create_user", "update_user", "delete_user",
     "bulk_delete_users"}

\* slot r starts a request in this step
Starts(r) == Free(r) /\ Steps(r)

\* the request slot r starts got past its dependency
Admitted(r) == req'[r].pc # "done"

\* the stored user the presented token names, at the time the request starts
Subject(tok) == crud_user_get(IdOfStr(tok.sub))

Forbidden(resp) == resp.status = 403 /\ resp.detail = "Not enough permissions"

\* C8 as stated: an active actor passes the gate of PUT and DELETE
\* /users/{user_id} if and only if actor.id = user_id or actor.is_superuser.
C8_OwnerOrSuperuserOnUpdateDelete ==
    [][\A r \in Reqs :
         /\ Starts(r)
         /\ req'[r].op \in {"update_user", "delete_user"}
         /\ get_current_active_user(req'[r].tok).status = 200
         => (Admitted(r) <=> OwnerOrSuperuser(req'[r].a.id, Subject(req'[r].tok)))]_vars

\* C8 amended: an active actor passes the gate of PUT and DELETE
\* /users/{user_id} if and only if actor.is_superuser; every other active
\* actor, the owner of the record included, is rejected with Forbidden (403).
C8_SuperuserOnlyOnUpdateDelete ==
    [][\A r \in Reqs :
         /\ Starts(r)
         /\ req'[r].op \in {"update_user", "delete_user"}
         /\ get_current_active_user(req'[r].tok).status = 200
         => /\ Admitted(r) <=> Subject(req'[r].tok).is_superuser
            /\ ~Admitted(r) => Forbidden(req'[r].resp)]_vars

\* an active non-superuser was refused on their own record
C8_Witness ==
    \E r \in Reqs :
        /\ Done(r, "update_user")
        /\ Forbidden(req[r].resp)
        /\ req[r].a.id = IdOfStr(req[r].tok.sub)
        /\ Subject(req[r].tok).is_active

\* C9: every issued token carries is_superuser = false, and a superuser-gated
\* request of an active user is admitted exactly when the stored is_superuser
\* of the token's subject is true when the request is made, whenever the token
\* was issued.
C9_RoleFromStoredUser ==
    /\ [](\A t \in tokens : ~t.is_superuser)
    /\ [][\A r \in Reqs :
            /\ Starts(r)
            /\ req'[r].op \in SuperuserGated
            /\ req'[r].tok \in tokens
            /\ get_current_active_user(req'[r].tok).status = 200
            => /\ Admitted(r) <=> Subject(req'[r].tok).is_superuser
               /\ Admitted(r) => req'[r].cu = Subject(req'[r].tok)
               /\ ~Admitted(r) => Forbidden(req'[r].resp)]_vars

\* the account create_admin stored as superuser, demoted since, is refused
\* with the token it was issued
C9_Witness ==
    \E r \in Reqs :
        /\ Done(r, "read_all_users")
        /\ Forbidden(req[r].resp)
        /\ req[r].tok \in tokens
        /\ Subject(req[r].tok).hashed_password = get_password_hash(FIRST_SUPERUSER_PASSWORD)
        /\ ~Subject(req[r].tok).is_superuser

\* C10: a superuser-gated request is admitted only if the resolved stored user
\* is active and superuser; an inactive user, superuser or not, is rejected
\* with Inactive user (400), an active non-superuser with Forbidden (403).
C10_SuperuserGateOnActiveGate ==
    [][\A r \in Reqs :
         /\ Starts(r)
         /\ req'[r].op \in SuperuserGated
         /\ get_current_user(req'[r].tok).status = 200
         => LET user == Subject(req'[r].tok)
            IN  /\ Admitted(r) => user.is_active /\ user.is_superuser
                /\ ~user.is_active
                     => ~Admitted(r) /\ req'[r].resp = Err(400, "Inactive user")
                /\ user.is_active /\ ~user.is_superuser
                     => ~Admitted(r) /\ Forbidden(req'[r].resp)]_vars

\* an inactive superuser was refused as inactive
C10_Witness ==
    \E r \in Reqs :
        /\ req[r].op \in SuperuserGated /\ req[r].pc = "done"
        /\ req[r].resp = Err(400, "Inactive user")
        /\ Subject(req[r].tok).is_superuser
        /\ ~Subject(req[r].tok).is_active

\* the endpoints behind a bearer token
TokenGated ==
    SuperuserGated
    \cup {"test_token", "read_user_me", "update_user_me", "read_user",
          "read_api_keys", "create_api_key", "create_api_key_with_expiry",
          "read_api_key", "update_api_key", "delete_api_key"}

\* correctly signed, and the instant in exp is not before the current time
Unexpired(tok) == tok.sig = "ok" /\ ~(FromTimestamp(tok.exp) < now)

C12_ExpiredAtOrBeforeNow ==
    [][\A r \in Reqs :
         /\ Starts(r) /\ req'[r].op \in TokenGated
         /\ req'[r].tok.sig = "ok"
         /\ FromTimestamp(req'[r].tok.exp) <= now
         => req'[r].pc = "done" /\ req'[r].resp.status = 401]_vars

\* C14: a direct call of create_access_token encodes exp = now + ttl for every
\* ttl the caller passes, ttl = 0 included, and now + the configured
\* ACCESS_TOKEN_EXPIRE_MINUTES only when no ttl is passed; the token login
\* returns has exp = now + ACCESS_TOKEN_EXPIRE_MINUTES minutes (exp counted
\* in whole seconds).
C14_ExpiryIsNowPlusTtl ==
    [][\A r \in Reqs :
         Steps(r) /\ req'[r].pc = "done" /\ req'[r].resp.status = 200
         => LET exp == req'[r].resp.token.exp
                ttl == req'[r].a.expires_delta
                configured == Minutes(settings.ACCESS_TOKEN_EXPIRE_MINUTES)
            IN  /\ req'[r].op = "create_access_token"
                     => exp = Timestamp(now + IF ttl = NoDelta THEN configured ELSE ttl)
                /\ req'[r].op = "login_access_token"
                     => exp = Timestamp(now + configured)]_vars

\* request r presents, in this step, the token that the direct call held in
\* slot q returned for a ttl > 0
VerifiesIssued(r, q) ==
    /\ Starts(r) /\ req'[r].op = "test_token"
    /\ Done(q, "create_access_token")
    /\ req[q].a.expires_delta > 0
    /\ req'[r].tok = req[q].resp.token

\* the token was accepted and resolved to the subject it was issued for
Verified(r, q) ==
    /\ req'[r].resp.status # 401
    /\ req'[r].resp.status = 200 => req'[r].resp.ids = {req[q].a.id}

\* C13: for every subject and ttl > 0 the token of
\* create_access_token(subject, ttl) verifies, and resolves to the subject, at
\* every time before issued_at + ttl, and fails with 401 at every time after
\* issued_at + ttl.
C13_RoundTripUntilTtl ==
    [][\A r, q \in Reqs :
         VerifiesIssued(r, q)
         => LET expire == req[q].at + req[q].a.expires_delta
            IN  /\ now < expire => Verified(r, q)
                /\ now > expire => req'[r].resp.status = 401]_vars

\* the stored user a login identifier names: by email first, by username when
\* no email matches
Identified(identifier) ==
    IF get_by_email(identifier) # NullUser THEN get_by_email(identifier)
    ELSE get_by_username(identifier)

\* slot r answers a login in this step
LoginAnswered(r) ==
    Steps(r) /\ req'[r].op = "login_access_token" /\ req'[r].pc = "done"

InvalidCredentials == Err(401, "Incorrect username/email or password")

\* C19: a login whose identifier names no user and a login with a wrong
\* password for an existing user, active or inactive, get the same response:
\* 401 with the one generic message, and no token.
C19_LoginGivesNoEnumerationHint ==
    [][\A r \in Reqs :
         LoginAnswered(r)
         => LET user == Identified(req'[r].a.username)
            IN  \/ user = NullUser
                \/ ~verify_password(req'[r].a.password, user.hashed_password)
                => req'[r].resp = InvalidCredentials /\ tokens' = tokens]_vars

\* an inactive user's identifier with a wrong password got the generic 401
C19_Witness ==
    \E r \in Reqs :
        /\ Done(r, "login_access_token")
        /\ req[r].at = now
        /\ Identified(req[r].a.username) # NullUser
        /\ ~Identified(req[r].a.username).is_active
        /\ ~verify_password(req[r].a.password,
                            Identified(req[r].a.username).hashed_password)
        /\ req[r].resp = InvalidCredentials

\* C20: login with the right password of an inactive user ends with Inactive
\* user (400) and issues no token; whenever login returns a token, its subject
\* is the id of a stored active user whose password matched, the one the
\* identifier names by email first and by username second.
C20_LoginOnlyForActiveUsers ==
    [][\A r \in Reqs :
         LoginAnswered(r)
         => LET user == Identified(req'[r].a.username)
                matches == /\ user # NullUser
                           /\ verify_password(req'[r].a.password, user.hashed_password)
            IN  /\ matches /\ ~user.is_active
                     => /\ req'[r].resp = Err(400, "Inactive user")
                        /\ tokens' = tokens
                /\ req'[r].resp.status = 200
                     => /\ matches /\ user.is_active
                        /\ user \in users
                        /\ req'[r].resp.token.sub = StrOfId(user.id)
                        /\ tokens' = tokens \cup {req'[r].resp.token}
                /\ req'[r].resp.status # 200
                     => req'[r].resp.token = NullToken /\ tokens' = tokens]_vars

\* an inactive user logged in with the right password and was refused
C20_Witness ==
    \E r \in Reqs :
        /\ Done(r, "login_access_token")
        /\ req[r].at = now
        /\ Identified(req[r].a.username) # NullUser
        /\ ~Identified(req[r].a.username).is_active
        /\ verify_password(req[r].a.password,
                           Identified(req[r].a.username).hashed_password)
        /\ req[r].resp = Err(400, "Inactive user")
        /\ req[r].resp.token = NullToken

\* isLive of the spec: is_active and (expires_at unset or expires_at > now)
IsLive(k) == k.is_active /\ (k.expires_at = -1 \/ k.expires_at > now)

\* C15: for every stored API key and every current time, CRUDAPIKey.is_active
\* answers False if is_active is false or expires_at is set and at or before
\* the current time, and True in every other case.
C15_IsLiveTruthTable ==
    [][\A r \in Reqs :
         Steps(r) /\ req'[r].op = "is_active"
         => LET k == crud_api_key_get(req'[r].a.id)
            IN  req'[r].resp = [NoResp EXCEPT !.status = 200,
                                  !.detail = IF IsLive(k) THEN "True" ELSE "False"]]_vars

\* slot r answers a resolution by API key in this step
Resolves(r) == Steps(r) /\ req'[r].op = "get_user_by_api_key"

\* C16: get_user_by_api_key ends with 401 when the key is missing, matches no
\* record, or the matched record is not live (expires_at = now included), and
\* goes on to load the owning user only when the record is live.
C16_ResolutionAgreesWithIsLive ==
    [][\A r \in Reqs :
         Resolves(r)
         => LET k == get_by_key(req'[r].a.key)
            IN  /\ req'[r].a.key = NoKey \/ k = NullKey \/ ~IsLive(k)
                     => req'[r].resp.status = 401
                /\ req'[r].resp.status \in {200, 400, 404} => IsLive(k)]_vars

\* C17: while a key's is_active is false, and once the key is deleted, every
\* resolution with its value ends with 401; update_api_key with
\* is_active = false leaves the key stored with is_active false and
\* delete_api_key leaves no key with that id.
C17_RevokedKeyIsRefused ==
    [][\A r \in Reqs :
         /\ Resolves(r) /\ req'[r].a.key # NoKey
              => LET k == get_by_key(req'[r].a.key)
                 IN  k = NullKey \/ ~k.is_active => req'[r].resp.status = 401
         /\ At(r, "update_api_key", "update") /\ Steps(r)
            /\ req[r].a.is_active = "false" /\ req'[r].resp.status = 200
              => \E k \in api_keys' : k.id = req[r].a.id /\ ~k.is_active
         /\ At(r, "delete_api_key", "remove") /\ Steps(r)
            /\ req'[r].resp.status = 200
              => ~\E k \in api_keys' : k.id = req[r].a.id]_vars

\* a key that was deactivated was presented and refused
C17_Witness ==
    \E r \in Reqs :
        /\ Done(r, "get_user_by_api_key")
        /\ req[r].at = now
        /\ get_by_key(req[r].a.key) # NullKey
        /\ ~get_by_key(req[r].a.key).is_active
        /\ req[r].resp = Err(401, "API key is inactive")

\* C18: resolving the principal of a request, from a bearer token or from an
\* API key, with or without success, changes no stored user and no stored API
\* key.
C18_ResolutionIsReadOnly ==
    [][\A r \in Reqs :
         \/ Resolves(r)
         \/ Starts(r) /\ req'[r].op \in TokenGated
         => users' = users /\ api_keys' = api_keys]_vars

\* a key that had expired was presented and refused, and is still stored
C18_Witness ==
    \E r \in Reqs :
        /\ Done(r, "get_user_by_api_key")
        /\ req[r].resp = Err(401, "API key has expired")
        /\ get_by_key(req[r].a.key) # NullKey

\* C21: on the create-with-expiry path the stored key's expires_at is
\* now + days_valid days (30 when days_valid is not given) when the request
\* gives no expiry, and the caller's expires_at unchanged when it gives one;
\* on the plain create path a request with no expiry stores a key whose
\* expires_at is unset.
C21_ExpiryOnCreate ==
    [][\A r \in Reqs :
         (/\ req[r].pc = "create"
          /\ req[r].op \in {"create_api_key", "create_api_key_with_expiry"}
          /\ req'[r].pc = "done"
          /\ req'[r].resp.status = 200)
         => \E k \in api_keys' \ api_keys :
              LET a == req[r].a
                  days == IF a.days_valid = 0 THEN 30 ELSE a.days_valid
              IN  /\ k.id \in req'[r].resp.ids
                  /\ req[r].op = "create_api_key_with_expiry" /\ a.expires_at = -1
                       => k.expires_at = now + days * 24 * 60 * 60 * TicksPerSecond
                  /\ req[r].op = "create_api_key_with_expiry" /\ a.expires_at # -1
                       => k.expires_at = a.expires_at
                  /\ req[r].op = "create_api_key" /\ a.expires_at = -1
                       => k.expires_at = -1]_vars

\* a key created after the clock moved, without an expiry and without
\* days_valid, expires thirty days after its creation
C21_Witness ==
    \E r \in Reqs : \E k \in api_keys :
        /\ Done(r, "create_api_key_with_expiry")
        /\ req[r].resp.status = 200
        /\ req[r].a.expires_at = -1
        /\ req[r].a.days_valid = 0
        /\ req[r].at > 0
        /\ k.id \in req[r].resp.ids
        /\ k.expires_at = req[r].at + Days(DefaultDaysValid)

\* C22: no two stored API keys have the same key value, and a creation whose
\* generated key collides with a stored key ends in a 400-class Conflict and
\* stores nothing.
C22_KeyValueUnique ==
    [][/\ \A k, l \in api_keys' : k.key = l.key => k = l
       /\ \A r \in Reqs :
            (/\ req[r].pc = "create"
             /\ req[r].op \in {"create_api_key", "create_api_key_with_expiry"}
             /\ req'[r].pc = "done"
             /\ req'[r].resp.status # 200)
            => /\ api_keys' = api_keys
               /\ req'[r].resp.status \in 400..499]_vars

\* C23: a user's id is immutable: a step of update_user, update_user_me,
\* login or registration never changes the id of a stored user record; the
\* record it changes, if any, keeps its id and no record disappears.
C23_UserIdImmutable ==
    [][/\ Cardinality(users \ users') <= 1
       /\ \A u \in users \ users' :
            \E v \in users' \ users : v.id = u.id]_vars

\* the administrator updated an account with a body that carries an id other
\* than the account's
C23_Witness ==
    \E r \in Reqs :
        /\ Done(r, "update_user")
        /\ req[r].resp.status = 200
        /\ req[r].a.body_id # 0
        /\ req[r].a.body_id # req[r].a.id
        /\ req[r].a.password = "p2"
        /\ verify_password("p2", crud_user_get(req[r].a.id).hashed_password)

\* slot r completes an update of a user record in this step
UpdateAnswered(r) ==
    /\ req[r].op \in {"update_user", "update_user_me"}
    /\ req[r].pc = "update"
    /\ req'[r].pc = "done"
    /\ req'[r].resp.status = 200

\* the record slot r is updating
Updated(r) == IF req[r].op = "update_user_me" THEN req[r].cu ELSE req[r].tgt

\* C25: after update_user_me or update_user set a user's password to p2, the
\* stored hash verifies p2 and no other password, so that a login with the
\* user's identifier succeeds with p2 and fails with 401 with the previous
\* password; an update that supplies no password (none, or the empty one)
\* leaves the stored hash, and the accepted password, unchanged.
C25_PasswordChangeRoundTrip ==
    [][\A r \in Reqs :
         /\ UpdateAnswered(r)
              => LET p2 == req[r].a.password
                     before == crud_user_get(Updated(r).id).hashed_password
                     after == (CHOOSE u \in users' : u.id = Updated(r).id).hashed_password
                 IN  IF p2 \in {"unset", ""}
                     THEN after = before
                     ELSE \A p \in AllPasswords :
                            verify_password(p, after) <=> p = p2
         /\ LoginAnswered(r)
              => LET user == Identified(req'[r].a.username)
                 IN  user # NullUser /\ user.is_active
                     => /\ verify_password(req'[r].a.password, user.hashed_password)
                           => req'[r].resp.status = 200
                        /\ ~verify_password(req'[r].a.password, user.hashed_password)
                           => req'[r].resp = InvalidCredentials]_vars

\* the registered user, whose password was p, logged in with p2
C25_Witness ==
    \E r \in Reqs :
        /\ Done(r, "login_access_token")
        /\ req[r].a.username = "u1"
        /\ req[r].a.password = "p2"
        /\ req[r].resp.status = 200

\* C28: update_user_me changes at most the full_name, email, username and
\* hashed_password of the actor's own record: whatever the body, the actor's
\* id, is_active and is_superuser stay as they were and no other user's
\* record is modified, added or removed.
C28_UpdateMeFrame ==
    [][\A r \in Reqs :
         Steps(r) /\ req'[r].op = "update_user_me"
         => /\ Cardinality(users') = Cardinality(users)
            /\ \A u \in users :
                 \E v \in users' :
                    /\ v.id = u.id
                    /\ v.is_active = u.is_active
                    /\ v.is_superuser = u.is_superuser
                    /\ u.id # IdOfStr(req'[r].tok.sub) => v = u]_vars

\* a user changed the own password with a body that also carried is_active,
\* is_superuser and id
C28_Witness ==
    \E r \in Reqs :
        /\ Done(r, "update_user_me")
        /\ req[r].resp.status = 200
        /\ req[r].a.is_superuser = "true"
        /\ req[r].a.is_active = "false"
        /\ req[r].a.body_id = 2
        /\ req[r].tok.sub = "2"
        /\ verify_password("p2", crud_user_get(2).hashed_password)

\* C26: whenever create_admin returns a user_id, with either message, that
\* id belongs to a stored user with is_superuser = true, and no call leaves a
\* second user with the configured first-superuser email.
C26_CreateAdminReturnsSuperuser ==
    [][\A r \in Reqs :
         (/\ Steps(r)
          /\ req'[r].op = "create_admin"
          /\ req'[r].pc = "done"
          /\ req'[r].resp.ids # {})
         => /\ \A id \in req'[r].resp.ids :
                 \E u \in users' : u.id = id /\ u.is_superuser
            /\ Cardinality({u \in users' : u.email = FIRST_SUPERUSER_EMAIL}) <= 1]_vars

\* C27: from a state with at least one superuser, no step of any interleaving
\* of delete_user and bulk_delete_users requests leaves storage without a
\* superuser.
C27_SuperuserSurvivesDeletes ==
    [][(\E u \in users : u.is_superuser) => (\E u \in users' : u.is_superuser)]_vars

\* C29: a key that a create request stores carries the id of the
\* authenticated actor of that request as its user_id, whatever the body
\* says, and no step of a create or update request changes the user_id or
\* the key value of a stored key.
C29_KeyOwnership ==
    [][\A r \in Reqs :
         Steps(r)
         => /\ \A k \in api_keys' \ api_keys :
                 \/ \E l \in api_keys : l.id = k.id /\ l.user_id = k.user_id /\ l.key = k.key
                 \/ /\ req[r].op \in {"create_api_key", "create_api_key_with_expiry"}
                    /\ k.user_id = IdOfStr(req[r].tok.sub)
                    /\ \A l \in api_keys : l.id # k.id
            /\ \A l \in api_keys : \E k \in api_keys' : k.id = l.id]_vars

\* the second user owns a key, and a key was updated with a body that names
\* another owner and another key value
C29_Witness ==
    \E r \in Reqs : \E k, l \in api_keys :
        /\ Done(r, "update_api_key")
        /\ req[r].resp.status = 200
        /\ req[r].a.user_id # 0
        /\ req[r].a.key # "None"
        /\ k.id = req[r].a.id
        /\ k.user_id # req[r].a.user_id
        /\ k.key # req[r].a.key
        /\ k.name = "n2"
        /\ l.user_id = 2

\* the rows the query of a finished paginated request matches
Matching(r) ==
    IF req[r].op = "search" THEN {u \in users : SearchHit(u, req[r].a.search)}
    ELSE IF req[r].op = "filter_by" THEN {u \in users : FilterHit(u, req[r].a)}
    ELSE users

\* C24: get_multi_paginated, filter_by and search over T matching records,
\* with page p clamped to >= 1 and page_size s clamped to 1..100, return
\* total_items = T, total_pages = ceil(T / s) (0 when T = 0), has_next iff
\* p < total_pages, has_prev iff p > 1, next_page = p + 1 exactly when
\* has_next (else null), prev_page = p - 1 exactly when has_prev (else null),
\* and min(s, max(0, T - (p - 1) * s)) items.
C24_PaginationMetadata ==
    \A r \in Reqs :
        req[r].pc = "done" /\ req[r].op \in {"get_multi_paginated", "filter_by", "search"}
        => LET T == Cardinality(Matching(r))
               p == IF req[r].a.page < 1 THEN 1 ELSE req[r].a.page
               s == IF req[r].a.page_size < 1 THEN 1
                    ELSE IF req[r].a.page_size > 100 THEN 100
                    ELSE req[r].a.page_size
               m == req[r].resp.pagination
               rest == IF T - (p - 1) * s > 0 THEN T - (p - 1) * s ELSE 0
           IN  /\ m.page = p
               /\ m.page_size = s
               /\ m.total_items = T
               /\ T = 0 => m.total_pages = 0
               /\ T > 0 => m.total_pages * s >= T /\ (m.total_pages - 1) * s < T
               /\ m.has_next <=> p < m.total_pages
               /\ m.has_prev <=> p > 1
               /\ m.next_page = IF m.has_next THEN p + 1 ELSE NoPage
               /\ m.prev_page = IF m.has_prev THEN p - 1 ELSE NoPage
               /\ Cardinality(req[r].resp.ids) = IF s < rest THEN s ELSE rest
               /\ req[r].resp.ids \subseteq {u.id : u \in Matching(r)}

\* the second of three pages of a filtered query: three matching rows, one
\* row to the page
C24_Witness ==
    \E r \in Reqs :
        /\ Done(r, "filter_by")
        /\ req[r].a.page = 2
        /\ req[r].a.page_size = 1
        /\ req[r].resp.pagination.total_items = 3
        /\ req[r].resp.pagination.total_pages = 3
        /\ req[r].resp.pagination.has_next
        /\ req[r].resp.pagination.has_prev
        /\ Cardinality(req[r].resp.ids) = 1

\* the statuses of the authentication, authorization, not-found, conflict
\* pre-check and self-delete errors
Rejections == {400, 401, 403, 404}

\* C30: a request to a user, auth or API-key endpoint that ends in 401, 403,
\* 404 or 400 leaves every stored User and APIKey record as it was: the step
\* that rejects the request writes nothing, and neither does any step of a
\* request before its last one.
C30_RejectedRequestChangesNothing ==
    [][\A r \in Reqs :
         Steps(r) /\ (req'[r].pc # "done" \/ req'[r].resp.status \in Rejections)
         => users' = users /\ api_keys' = api_keys]_vars

\* a user was refused the delete of another user's key with 403, and the key
\* is still stored
C30_Witness ==
    \E r \in Reqs : \E k \in api_keys :
        /\ Done(r, "delete_api_key")
        /\ req[r].resp.status = 403
        /\ k.id = req[r].a.id
        /\ k.user_id # IdOfStr(req[r].tok.sub)
====
